---- MODULE Spec2Model ----
(***************************************************************************)
(* ReliefConnect: the TeamBuilder component                                *)
(* (src/src/components/TeamBuilder.tsx).                                   *)
(*                                                                         *)
(* The component's useState cells are the variables, every event handler   *)
(* is one action, and the asynchronous handleCreateTeam is split at its    *)
(* single await: the click (validation, setSaving, the insert request)     *)
(* and the continuation that runs when the store answers.  React renders   *)
(* after every state change, so every action ends by recomputing the       *)
(* render-time constant skillCoverage.                                     *)
(*                                                                         *)
(* Text values are sequences of one-character strings so that trim() can   *)
(* be computed.  JavaScript null is the string NULL.                       *)
(***************************************************************************)
EXTENDS Integers, Sequences, FiniteSets, TLC

NULL == "null"

\* Number of insert requests one behaviour may send.
MaxCreates == 1
\* Longest required-skill list and member list drawn for the evaluator.
MaxRequired == 2
MaxMembers == 2
\* Number of delete requests one behaviour of the Resources page may send.
MaxDeletes == 2
\* Number of rows one behaviour may insert into the volunteers table.
MaxRows == 2
\* Number of volunteers one behaviour may register through VolunteerForm.
MaxRegistered == 2
\* Number of shifts one behaviour may send to the shifts table.
MaxShifts == 1
\* Number of changes the incidents table undergoes in one behaviour.
MaxIncidentChanges == 2
\* Number of IncidentForm submissions in one behaviour.
MaxIncidentSaves == 1
\* Number of sign-ins and sign-outs in one behaviour.
MaxAuthChanges == 2
\* Largest maxSkills a parent passes to SkillsSelector.
MaxSkillsProp == 2
\* Longest selectedSkills list a parent starts SkillsSelector with.
MaxSelectedLen == 3

(***************************************************************************)
(* Data                                                                    *)
(***************************************************************************)

\* A Volunteer row as TeamBuilder reads it; `skills?: string[]` is optional.
Volunteer(id, hasSkills, skills) ==
    [id |-> id, hasSkills |-> hasSkills, skills |-> skills]

\* Two rows of the skills catalog (ids are what requiredSkills holds).
SkillCatalog == <<"FirstAid", "Driving">>

\* The volunteers table as fetchData reads it.
VolunteerDirectory ==
    << Volunteer("v1", TRUE, <<"FirstAid">>),
       Volunteer("v2", FALSE, <<>>) >>

\* Values typed into the text inputs.
TeamNameInputs == { <<>>, <<" ">>, <<" ", "A">> }
DescriptionInputs == { <<>>, <<"d">> }
LocationInputs == { <<>>, <<"x">> }

\* The props of the component: incidentId?, onTeamCreated?.
PropsInputs == { [incidentId |-> NULL, hasCallback |-> FALSE],
                 [incidentId |-> "inc1", hasCallback |-> TRUE] }

\* Skill lists a volunteer row may carry, for the evaluator's inputs.
SkillListInputs ==
    { [hasSkills |-> FALSE, skills |-> <<>>],
      [hasSkills |-> TRUE,  skills |-> <<>>],
      [hasSkills |-> TRUE,  skills |-> <<"FirstAid">>],
      [hasSkills |-> TRUE,  skills |-> <<"Driving", "CPR">>] }
RequiredInputs == {"FirstAid", "Driving", "Translation"}

(***************************************************************************)
(* JavaScript helpers                                                      *)
(***************************************************************************)

Range(s) == { s[i] : i \in 1..Len(s) }

\* Array.prototype.includes
Includes(s, x) == \E i \in 1..Len(s) : s[i] = x

\* Array.prototype.filter(v => v.id !== id)
RECURSIVE FilterOutId(_, _)
FilterOutId(s, id) ==
    IF s = <<>> THEN <<>>
    ELSE IF Head(s).id # id
         THEN <<Head(s)>> \o FilterOutId(Tail(s), id)
         ELSE FilterOutId(Tail(s), id)

\* Array.prototype.filter(id => id !== x)
RECURSIVE FilterOut(_, _)
FilterOut(s, x) ==
    IF s = <<>> THEN <<>>
    ELSE IF Head(s) # x
         THEN <<Head(s)>> \o FilterOut(Tail(s), x)
         ELSE FilterOut(Tail(s), x)

\* Array.prototype.map(v => v.id)
MapIds(s) == [i \in 1..Len(s) |-> s[i].id]

\* String.prototype.trim
RECURSIVE TrimStart(_)
TrimStart(s) ==
    IF s = <<>> THEN <<>>
    ELSE IF Head(s) = " " THEN TrimStart(Tail(s)) ELSE s
RECURSIVE TrimEnd(_)
TrimEnd(s) ==
    IF s = <<>> THEN <<>>
    ELSE IF s[Len(s)] = " " THEN TrimEnd(SubSeq(s, 1, Len(s) - 1)) ELSE s
Trim(s) == TrimEnd(TrimStart(s))

\* JavaScript truthiness of a string (a text value or an id-or-null).
TruthyText(s) == s # <<>>
TruthyId(x) == x # NULL /\ x # ""

\* `x || null` for a text value; NULL is rendered as the one-element <<NULL>>.
TextOrNull(s) == IF TruthyText(s) THEN s ELSE <<NULL>>
IdOrNull(x) == IF TruthyId(x) THEN x ELSE NULL

(***************************************************************************)
(* State                                                                   *)
(***************************************************************************)

VARIABLES
    props,              \* incidentId, onTeamCreated
    loading,            \* useState(true)
    volunteers,         \* useState([])
    skills,             \* useState([])
    selectedVolunteers, \* useState([])
    teamName,           \* useState('')
    teamDescription,    \* useState('')
    leaderId,           \* useState(null)
    requiredSkills,     \* useState([])
    location,           \* useState('')
    saving,             \* useState(false)
    skillCoverage,      \* const skillCoverage = calculateSkillCoverage()
    request,            \* the insert request awaiting the store's answer
    requestsSent,       \* number of insert requests sent to teams
    teams,              \* ids of the rows the store created in teams
    toast,              \* the notice shown by the last step
    callbackCalls       \* arguments onTeamCreated was called with

\* The Resources page (src/src/pages/Resources.tsx) and the resources table.
VARIABLES
    resStore,           \* ids of the rows of the resources table
    resources,          \* useState([]): ids of the rows held in memory
    resLoading,         \* useState(true)
    deleteConfirm,      \* useState(null)
    resDeletes,         \* delete requests awaiting the store's answer, per id
    resDeletesSent,     \* number of delete requests sent
    resFetches,         \* fetchResources requests the store has not read yet
    resReplies,         \* replies of fetchResources not yet delivered
    resEvents,          \* realtime change events not yet delivered
    resToast            \* the notice shown by the last step

\* The volunteers table under its row-level-security policies
\* (src/supabase/migrations/20250412141056_amber_heart.sql).
VARIABLES
    rlsRows,            \* the rows of the table: user_id and name
    rlsLast             \* the last insert or update statement and its outcome

\* VolunteerForm on the Volunteers page, and the volunteers table it fills.
VARIABLES
    vfOpen,             \* Volunteers.tsx: showForm, with selectedVolunteer null
    vfSkills,           \* VolunteerForm: useState(volunteer?.skills || [])
    vfLoading,          \* VolunteerForm: useState(false)
    vfPending,          \* the insert awaiting the store's answer
    vfTable,            \* rows of the volunteers table: id and skills
    vfToast             \* the notice shown by the last step

\* ShiftScheduler (src/unnamed/part_003) and the volunteer's rows of the
\* shifts table.
VARIABLES
    ssStore,            \* the volunteer's rows of the shifts table
    ssZone,             \* how the store writes the UTC offset of a timestamptz
    tasks,              \* useState([]): ids of the open tasks
    shifts,             \* useState([])
    selectedDate,       \* useState('')
    selectedTask,       \* useState('')
    selectedTimeSlot,   \* useState('')
    ssLoading,          \* useState(true)
    ssSaving,           \* useState(false)
    availableDates,     \* useState([])
    timeSlots,          \* useState([])
    upcomingShifts,     \* useState([])
    ssPhase,            \* the await at which handleSaveShift stands
    ssRequest,          \* the row of the insert awaiting the store's answer
    ssSent,             \* number of inserts sent to shifts
    ssToast             \* the notice shown by the last step

\* NotificationCenter (src/src/components/NotificationCenter.tsx).
VARIABLES
    ncUser,             \* useContext(AuthContext).user
    notifications,      \* useState([]): id, read, link
    showNotifications,  \* useState(false)
    unreadCount,        \* useState(0)
    ncRoute,            \* the router's location
    ncLast              \* the control the last step used

\* The Incidents page (src/src/pages/Incidents.tsx), IncidentForm and the
\* incidents table.
VARIABLES
    incStore,           \* the incidents table: revision of each row, 0 = absent
    incidents,          \* useState([]): the rows as last fetched
    incLoading,         \* useState(true)
    showForm,           \* useState(false)
    selectedIncident,   \* useState(null): id of the incident being edited
    incFetches,         \* fetchIncidents requests the store has not read yet
    incReplies,         \* replies of fetchIncidents not yet delivered
    incEvents,          \* realtime change events not yet delivered
    incSaves,           \* IncidentForm requests awaiting the store's answer
    incSent,            \* number of IncidentForm requests sent
    incChanges,         \* number of changes made to the table
    incFetchFailed,     \* some fetchIncidents was answered with an error
    incLast             \* the control or notice of the last step

\* App (src/src/App.tsx) and the auth client's session.
VARIABLES
    appSession,         \* the user of the auth client's current session
    appUser,            \* useState(null)
    appLoading,         \* useState(true)
    appCheck,           \* where checkUser stands: sent, replied, done
    appCheckReply,      \* what getUser answered
    appEvents,          \* onAuthStateChange events not yet delivered
    appChanges          \* number of sign-ins and sign-outs so far

\* SkillsSelector (src/unnamed/part_001) and the parent that owns its list.
VARIABLES
    skSelected,         \* prop selectedSkills, held by the parent
    skMax,              \* prop maxSkills
    skCatalog,          \* useState([]): names of the fetched skills
    skLoading,          \* useState(true)
    skShowDropdown,     \* useState(false)
    skLast              \* the last handler call and what it gave onChange

formVars == <<teamName, teamDescription, location, selectedVolunteers,
              leaderId, requiredSkills>>
tbVars == <<props, loading, volunteers, skills, selectedVolunteers, teamName,
            teamDescription, leaderId, requiredSkills, location, saving,
            skillCoverage, request, requestsSent, teams, toast, callbackCalls>>
resVars == <<resStore, resources, resLoading, deleteConfirm, resDeletes,
             resDeletesSent, resFetches, resReplies, resEvents, resToast>>
\* Everything that is not state of the TeamBuilder component.
rlsVars == <<rlsRows, rlsLast>>
vfVars == <<vfOpen, vfSkills, vfLoading, vfPending, vfTable, vfToast>>
ssVars == <<ssStore, ssZone, tasks, shifts, selectedDate, selectedTask,
            selectedTimeSlot, ssLoading, ssSaving, availableDates, timeSlots,
            upcomingShifts, ssPhase, ssRequest, ssSent, ssToast>>
ncVars == <<ncUser, notifications, showNotifications, unreadCount, ncRoute,
            ncLast>>
\* The components modelled after ShiftScheduler.
incVars == <<incStore, incidents, incLoading, showForm, selectedIncident,
             incFetches, incReplies, incEvents, incSaves, incSent, incChanges,
             incFetchFailed, incLast>>
appVars == <<appSession, appUser, appLoading, appCheck, appCheckReply,
             appEvents, appChanges>>
skVars == <<skSelected, skMax, skCatalog, skLoading, skShowDropdown, skLast>>
lateVars == <<ncVars, incVars, appVars, skVars>>
nonTbVars == <<resVars, rlsVars, vfVars, ssVars, lateVars>>
vars == <<tbVars, nonTbVars>>

ResourceIds == {"r1", "r2"}

\* The Resources page is not mounted.
ResIdle ==
    /\ resStore = ResourceIds
    /\ resources = {}
    /\ resLoading = TRUE
    /\ deleteConfirm = NULL
    /\ resDeletes = [r \in ResourceIds |-> 0]
    /\ resDeletesSent = 0
    /\ resFetches = 0
    /\ resReplies = <<>>
    /\ resEvents = 0
    /\ resToast = "none"

NoStatement == [op |-> "none", role |-> "anon", uid |-> NULL, ok |-> FALSE]

\* Nothing was written to the volunteers table.
RlsIdle ==
    /\ rlsRows = <<>>
    /\ rlsLast = NoStatement

NoInsert == [pending |-> FALSE, skills |-> <<>>]

\* The Volunteers page shows its list; nobody has registered.
VfIdle ==
    /\ vfOpen = FALSE
    /\ vfSkills = <<>>
    /\ vfLoading = FALSE
    /\ vfPending = NoInsert
    /\ vfTable = <<>>
    /\ vfToast = "none"

NoShift == [task_id |-> "", start_time |-> <<>>, end_time |-> <<>>]

\* No ShiftScheduler is mounted.
SsIdle ==
    /\ ssStore = <<>>
    /\ ssZone = <<"Z">>
    /\ tasks = <<>>
    /\ shifts = <<>>
    /\ selectedDate = <<>>
    /\ selectedTask = ""
    /\ selectedTimeSlot = ""
    /\ ssLoading = TRUE
    /\ ssSaving = FALSE
    /\ availableDates = <<>>
    /\ timeSlots = <<>>
    /\ upcomingShifts = <<>>
    /\ ssPhase = "idle"
    /\ ssRequest = NoShift
    /\ ssSent = 0
    /\ ssToast = "none"

\* Nobody is signed in: NotificationCenter is not mounted.
NcIdle ==
    /\ ncUser = NULL
    /\ notifications = <<>>
    /\ showNotifications = FALSE
    /\ unreadCount = 0
    /\ ncRoute = "/"
    /\ ncLast = "none"

IncidentIds == {"i1", "i2"}

\* No row: what useState([]) holds, as revisions per id.
NoIncidents == [i \in IncidentIds |-> 0]

\* The Incidents page is not mounted; the table holds incident i1.
IncIdle ==
    /\ incStore = [i \in IncidentIds |-> IF i = "i1" THEN 1 ELSE 0]
    /\ incidents = NoIncidents
    /\ incLoading = TRUE
    /\ showForm = FALSE
    /\ selectedIncident = NULL
    /\ incFetches = 0
    /\ incReplies = <<>>
    /\ incEvents = 0
    /\ incSaves = <<>>
    /\ incSent = 0
    /\ incChanges = 0
    /\ incFetchFailed = FALSE
    /\ incLast = "none"

NoReply == [ok |-> TRUE, user |-> NULL]

\* App has mounted with nobody signed in; checkUser has not been answered.
AppIdle ==
    /\ appSession = NULL
    /\ appUser = NULL
    /\ appLoading = TRUE
    /\ appCheck = "sent"
    /\ appCheckReply = NoReply
    /\ appEvents = <<>>
    /\ appChanges = 0

NoCall == [handler |-> "none", skill |-> "", called |-> FALSE, list |-> <<>>]

\* No SkillsSelector is mounted.
SkIdle ==
    /\ skSelected = <<>>
    /\ skMax = 0
    /\ skCatalog = <<>>
    /\ skLoading = TRUE
    /\ skShowDropdown = FALSE
    /\ skLast = NoCall

LateIdle ==
    /\ NcIdle
    /\ IncIdle
    /\ AppIdle
    /\ SkIdle

NoRow == [name |-> <<>>, description |-> <<>>, leader_id |-> NULL,
          members |-> <<>>, skills_required |-> <<>>, active |-> FALSE,
          incident_id |-> NULL, location |-> <<NULL>>]
NoRequest == [pending |-> FALSE, row |-> NoRow]

NotRendered == [rendered |-> FALSE, covered |-> <<>>, missing |-> <<>>]

(***************************************************************************)
(* calculateSkillCoverage                                                  *)
(***************************************************************************)

\* Variant: a team without members counts as covering every skill.
IsSkillCovered_EmptyTeam(sel, skillId) ==
    \/ sel = <<>>
    \/ \E i \in 1..Len(sel) : sel[i].hasSkills /\ Includes(sel[i].skills, skillId)

\* Variant: every() where the code calls some().
IsSkillCovered_Every(sel, skillId) ==
    \A i \in 1..Len(sel) : sel[i].hasSkills /\ Includes(sel[i].skills, skillId)

\* selectedVolunteers.some(v => v.skills?.includes(skillId))
IsSkillCovered(sel, skillId) ==
    \E i \in 1..Len(sel) : sel[i].hasSkills /\ Includes(sel[i].skills, skillId)

\* Variant: the else of the callback is lost, every skill is pushed to missing.
Classify_NoElse(acc, sel, skillId) ==
    IF IsSkillCovered(sel, skillId)
    THEN [acc EXCEPT !.covered = Append(@, skillId),
                     !.missing = Append(@, skillId)]
    ELSE [acc EXCEPT !.missing = Append(@, skillId)]

\* The body of the forEach callback: push skillId to covered or to missing.
Classify(acc, sel, skillId) ==
    IF IsSkillCovered(sel, skillId)
    THEN [acc EXCEPT !.covered = Append(@, skillId)]
    ELSE [acc EXCEPT !.missing = Append(@, skillId)]

\* requiredSkills.forEach(...), in list order.
RECURSIVE CoverageLoop(_, _, _)
CoverageLoop(req, sel, acc) ==
    IF req = <<>> THEN acc
    ELSE CoverageLoop(Tail(req), sel, Classify(acc, sel, Head(req)))

\* Variant: covered lists what the first member holds, required or not.
calculateSkillCoverage_MemberSkills(req, sel) ==
    [covered |-> IF sel # <<>> /\ sel[1].hasSkills THEN sel[1].skills ELSE <<>>,
     missing |-> SelectSeq(req, LAMBDA s : ~IsSkillCovered(sel, s))]

calculateSkillCoverage(req, sel) ==
    CoverageLoop(req, sel, [covered |-> <<>>, missing |-> <<>>])

\* Variant: the coverage is memoised on requiredSkills alone.
Render_Memo(isLoading, req, sel) ==
    IF isLoading THEN NotRendered
    ELSE IF skillCoverage.rendered /\ req = requiredSkills THEN skillCoverage
    ELSE LET c == calculateSkillCoverage(req, sel)
         IN [rendered |-> TRUE, covered |-> c.covered, missing |-> c.missing]

\* The render: nothing but a spinner while loading, else line 312.
Render(isLoading, req, sel) ==
    IF isLoading THEN NotRendered
    ELSE LET c == calculateSkillCoverage(req, sel)
         IN [rendered |-> TRUE, covered |-> c.covered, missing |-> c.missing]

(***************************************************************************)
(* Initial state: the component has mounted, fetchData is awaiting.        *)
(***************************************************************************)

Init ==
    /\ props \in PropsInputs
    /\ loading = TRUE
    /\ volunteers = <<>>
    /\ skills = <<>>
    /\ selectedVolunteers = <<>>
    /\ teamName = <<>>
    /\ teamDescription = <<>>
    /\ leaderId = NULL
    /\ requiredSkills = <<>>
    /\ location = <<>>
    /\ saving = FALSE
    /\ skillCoverage = NotRendered
    /\ request = NoRequest
    /\ requestsSent = 0
    /\ teams = <<>>
    /\ toast = "none"
    /\ callbackCalls = <<>>
    /\ ResIdle
    /\ RlsIdle
    /\ VfIdle
    /\ SsIdle
    /\ LateIdle

(***************************************************************************)
(* fetchData (the mount effect)                                            *)
(***************************************************************************)

FetchDataOk ==
    /\ loading
    /\ volunteers' = VolunteerDirectory
    /\ skills' = SkillCatalog
    /\ loading' = FALSE
    /\ toast' = "none"
    /\ skillCoverage' = Render(FALSE, requiredSkills, selectedVolunteers)
    /\ UNCHANGED <<props, formVars, saving, request, requestsSent, teams,
                   callbackCalls>>
    /\ UNCHANGED nonTbVars

FetchDataFails ==
    /\ loading
    /\ loading' = FALSE
    /\ toast' = "Failed to load volunteers and skills data"
    /\ skillCoverage' = Render(FALSE, requiredSkills, selectedVolunteers)
    /\ UNCHANGED <<props, volunteers, skills, formVars, saving, request,
                   requestsSent, teams, callbackCalls>>
    /\ UNCHANGED nonTbVars

(***************************************************************************)
(* The text inputs                                                         *)
(***************************************************************************)

SetTeamName(v) ==
    /\ ~loading
    /\ teamName' = v
    /\ toast' = "none"
    /\ skillCoverage' = Render(loading, requiredSkills, selectedVolunteers)
    /\ UNCHANGED <<props, loading, volunteers, skills, selectedVolunteers,
                   teamDescription, leaderId, requiredSkills, location,
                   saving, request, requestsSent, teams, callbackCalls>>
    /\ UNCHANGED nonTbVars

SetTeamDescription(v) ==
    /\ ~loading
    /\ teamDescription' = v
    /\ toast' = "none"
    /\ skillCoverage' = Render(loading, requiredSkills, selectedVolunteers)
    /\ UNCHANGED <<props, loading, volunteers, skills, selectedVolunteers,
                   teamName, leaderId, requiredSkills, location,
                   saving, request, requestsSent, teams, callbackCalls>>
    /\ UNCHANGED nonTbVars

SetLocation(v) ==
    /\ ~loading
    /\ location' = v
    /\ toast' = "none"
    /\ skillCoverage' = Render(loading, requiredSkills, selectedVolunteers)
    /\ UNCHANGED <<props, loading, volunteers, skills, selectedVolunteers,
                   teamName, teamDescription, leaderId, requiredSkills,
                   saving, request, requestsSent, teams, callbackCalls>>
    /\ UNCHANGED nonTbVars

(***************************************************************************)
(* The member list                                                         *)
(***************************************************************************)

\* Variant: the `find` guard is lost.
SelectedAfterSelect_NoGuard(sel, volunteer) == Append(sel, volunteer)

\* handleSelectVolunteer's result for selectedVolunteers.
SelectedAfterSelect(sel, volunteer) ==
    IF ~(\E i \in 1..Len(sel) : sel[i].id = volunteer.id)
    THEN Append(sel, volunteer)
    ELSE sel

\* The "Add to team" button of a row of the available-volunteers list.
HandleSelectVolunteer(volunteer) ==
    /\ ~loading
    /\ selectedVolunteers' = SelectedAfterSelect(selectedVolunteers, volunteer)
    /\ toast' = "none"
    /\ skillCoverage' = Render(loading, requiredSkills, selectedVolunteers')
    /\ UNCHANGED <<props, loading, volunteers, skills, teamName,
                   teamDescription, leaderId, requiredSkills, location,
                   saving, request, requestsSent, teams, callbackCalls>>
    /\ UNCHANGED nonTbVars

\* Variant: removing the leader does not clear leaderId.
LeaderAfterRemove_Keep(leader, volunteerId) == leader

\* handleRemoveVolunteer's result for leaderId.
LeaderAfterRemove(leader, volunteerId) ==
    IF leader = volunteerId THEN NULL ELSE leader

\* The "Remove from team" button; it exists on the rows of the selection
\* list only, and the handler is a no-op for any other id.
HandleRemoveVolunteer(volunteerId) ==
    /\ ~loading
    /\ selectedVolunteers' = FilterOutId(selectedVolunteers, volunteerId)
    /\ leaderId' = LeaderAfterRemove(leaderId, volunteerId)
    /\ toast' = "none"
    /\ skillCoverage' = Render(loading, requiredSkills, selectedVolunteers')
    /\ UNCHANGED <<props, loading, volunteers, skills, teamName,
                   teamDescription, requiredSkills, location,
                   saving, request, requestsSent, teams, callbackCalls>>
    /\ UNCHANGED nonTbVars

\* Variant: clicking the current leader's button clears the designation.
LeaderAfterSet_Toggle(leader, volunteerId) ==
    IF leader = volunteerId THEN NULL ELSE volunteerId

\* handleSetLeader's result for leaderId.
LeaderAfterSet(leader, volunteerId) == volunteerId

\* The "Set as Team Leader" button, rendered on the rows of the selection
\* list only (isSelection).
HandleSetLeader(volunteerId) ==
    /\ ~loading
    /\ \E i \in 1..Len(selectedVolunteers) :
           selectedVolunteers[i].id = volunteerId
    /\ leaderId' = LeaderAfterSet(leaderId, volunteerId)
    /\ toast' = "none"
    /\ skillCoverage' = Render(loading, requiredSkills, selectedVolunteers)
    /\ UNCHANGED <<props, loading, volunteers, skills, selectedVolunteers,
                   teamName, teamDescription, requiredSkills, location,
                   saving, request, requestsSent, teams, callbackCalls>>
    /\ UNCHANGED nonTbVars

(***************************************************************************)
(* The required-skill checkboxes                                           *)
(***************************************************************************)

\* Variant: a click always appends the skill.
RequiredAfterToggle_AlwaysAdd(req, skillId) == Append(req, skillId)

RequiredAfterToggle(req, skillId) ==
    IF Includes(req, skillId) THEN FilterOut(req, skillId)
    ELSE Append(req, skillId)

HandleToggleSkill(skillId) ==
    /\ ~loading
    /\ requiredSkills' = RequiredAfterToggle(requiredSkills, skillId)
    /\ toast' = "none"
    /\ skillCoverage' = Render(loading, requiredSkills', selectedVolunteers)
    /\ UNCHANGED <<props, loading, volunteers, skills, selectedVolunteers,
                   teamName, teamDescription, leaderId, location,
                   saving, request, requestsSent, teams, callbackCalls>>
    /\ UNCHANGED nonTbVars

(***************************************************************************)
(* Create Team                                                             *)
(***************************************************************************)

\* Variant: `!teamName` where the code tests `!teamName.trim()`.
validateTeam_NoTrim(name, sel, leader) ==
    IF ~TruthyText(name) THEN "Team name is required"
    ELSE IF Len(sel) = 0 THEN "Please select at least one volunteer"
    ELSE IF ~TruthyId(leader) THEN "Please designate a team leader"
    ELSE "none"

\* validateTeam: the notice it shows, "none" when it returns true.
validateTeam(name, sel, leader) ==
    IF ~TruthyText(Trim(name)) THEN "Team name is required"
    ELSE IF Len(sel) = 0 THEN "Please select at least one volunteer"
    ELSE IF ~TruthyId(leader) THEN "Please designate a team leader"
    ELSE "none"

\* Variant: the early return is lost.
Proceeds_NoReturn(notice) == TRUE

\* `if (!validateTeam()) return;`
Proceeds(notice) == notice = "none"

\* Variant: location is sent as typed, without `|| null`.
InsertRow_NoNull(name, description, leader, sel, req, incidentId, loc) ==
    [name |-> name,
     description |-> description,
     leader_id |-> leader,
     members |-> MapIds(sel),
     skills_required |-> req,
     active |-> TRUE,
     incident_id |-> IdOrNull(incidentId),
     location |-> loc]

\* The object passed to supabase.from('teams').insert([...]).
InsertRow(name, description, leader, sel, req, incidentId, loc) ==
    [name |-> name,
     description |-> description,
     leader_id |-> leader,
     members |-> MapIds(sel),
     skills_required |-> req,
     active |-> TRUE,
     incident_id |-> IdOrNull(incidentId),
     location |-> TextOrNull(loc)]

\* A click on Create Team that validateTeam rejects.
HandleCreateTeamRejected ==
    /\ ~loading
    /\ ~saving
    /\ LET notice == validateTeam(teamName, selectedVolunteers, leaderId)
       IN /\ ~Proceeds(notice)
          /\ toast' = notice
    /\ skillCoverage' = Render(loading, requiredSkills, selectedVolunteers)
    /\ UNCHANGED <<props, loading, volunteers, skills, formVars, saving,
                   request, requestsSent, teams, callbackCalls>>
    /\ UNCHANGED nonTbVars

\* A click on Create Team up to the await: setSaving(true) and the insert.
HandleCreateTeamSend ==
    /\ ~loading
    /\ ~saving
    /\ requestsSent < MaxCreates
    /\ LET notice == validateTeam(teamName, selectedVolunteers, leaderId)
       IN /\ Proceeds(notice)
          /\ toast' = notice
    /\ saving' = TRUE
    /\ request' = [pending |-> TRUE,
                   row |-> InsertRow(teamName, teamDescription, leaderId,
                                     selectedVolunteers, requiredSkills,
                                     props.incidentId, location)]
    /\ requestsSent' = requestsSent + 1
    /\ skillCoverage' = Render(loading, requiredSkills, selectedVolunteers)
    /\ UNCHANGED <<props, loading, volunteers, skills, formVars, teams,
                   callbackCalls>>
    /\ UNCHANGED nonTbVars

\* Variant: the error of the reply is not rethrown.
Throws_Swallowed(reply) == FALSE

\* `if (teamError) throw teamError;`
Throws(reply) == reply.error

\* Variant: `teamData.length > 1`.
HasData_Strict(reply) == reply.hasData /\ Len(reply.data) > 1

\* `if (teamData && teamData.length > 0)`
HasData(reply) == reply.hasData /\ Len(reply.data) > 0

\* handleCreateTeam from the await on, given the store's reply.
HandleCreateTeamSettle(reply) ==
    LET failed == Throws(reply)
        created == ~failed /\ HasData(reply)
    IN /\ toast' = IF failed THEN "Failed to create team"
                   ELSE IF created THEN "Team created successfully!"
                   ELSE "none"
       /\ teamName' = IF created THEN <<>> ELSE teamName
       /\ teamDescription' = IF created THEN <<>> ELSE teamDescription
       /\ leaderId' = IF created THEN NULL ELSE leaderId
       /\ selectedVolunteers' = IF created THEN <<>> ELSE selectedVolunteers
       /\ requiredSkills' = IF created THEN <<>> ELSE requiredSkills
       /\ location' = IF created THEN <<>> ELSE location
       /\ callbackCalls' = IF created /\ props.hasCallback
                           THEN Append(callbackCalls, reply.data[1])
                           ELSE callbackCalls
       /\ saving' = FALSE
       /\ skillCoverage' = Render(loading, requiredSkills', selectedVolunteers')

\* The store inserts the row and returns it (`.select()`).
InsertSucceeds ==
    /\ request.pending
    /\ LET id == Len(teams) + 1
       IN /\ teams' = Append(teams, id)
          /\ HandleCreateTeamSettle([error |-> FALSE, hasData |-> TRUE,
                                     data |-> <<id>>])
    /\ request' = NoRequest
    /\ UNCHANGED <<props, loading, volunteers, skills, requestsSent>>
    /\ UNCHANGED nonTbVars

\* Variant: the failure path without the `finally`: saving stays true.
InsertFails_NoFinally ==
    /\ request.pending
    /\ toast' = "Failed to create team"
    /\ skillCoverage' = Render(loading, requiredSkills, selectedVolunteers)
    /\ request' = NoRequest
    /\ UNCHANGED <<props, loading, volunteers, skills, formVars, saving,
                   requestsSent, teams, callbackCalls>>
    /\ UNCHANGED nonTbVars

\* The store refuses the row: { data: null, error }.
InsertFails ==
    /\ request.pending
    /\ HandleCreateTeamSettle([error |-> TRUE, hasData |-> FALSE,
                               data |-> <<>>])
    /\ request' = NoRequest
    /\ UNCHANGED <<props, loading, volunteers, skills, requestsSent, teams>>
    /\ UNCHANGED nonTbVars

(***************************************************************************)
(* The component                                                           *)
(***************************************************************************)

Next ==
    \/ FetchDataOk
    \/ FetchDataFails
    \/ \E v \in TeamNameInputs : SetTeamName(v)
    \/ \E v \in DescriptionInputs : SetTeamDescription(v)
    \/ \E v \in LocationInputs : SetLocation(v)
    \/ \E i \in 1..Len(volunteers) : HandleSelectVolunteer(volunteers[i])
    \/ \E i \in 1..Len(volunteers) : HandleRemoveVolunteer(volunteers[i].id)
    \/ \E i \in 1..Len(selectedVolunteers) :
           HandleSetLeader(selectedVolunteers[i].id)
    \/ \E i \in 1..Len(skills) : HandleToggleSkill(skills[i])
    \/ HandleCreateTeamRejected
    \/ HandleCreateTeamSend
    \/ InsertSucceeds
    \/ InsertFails

\* The store answers every request it received.
StoreAnswers == InsertSucceeds \/ InsertFails

\* The component mounted without props.
InitLive == Init /\ props = [incidentId |-> NULL, hasCallback |-> FALSE]

SpecLive == InitLive /\ [][Next]_vars /\ WF_vars(StoreAnswers)

Spec == Init /\ [][Next]_vars

(***************************************************************************)
(* The evaluator on its own: calculateSkillCoverage applied to every       *)
(* required-skill list and member list within the bounds.                  *)
(***************************************************************************)

MemberIds == <<"v1", "v2", "v3", "v4">>

\* Lists without repetition, as handleToggleSkill builds them.
RequiredLists ==
    { r \in UNION { [1..n -> RequiredInputs] : n \in 0..MaxRequired } :
        \A i, j \in 1..Len(r) : i # j => r[i] # r[j] }

\* Member lists with pairwise different ids, as handleSelectVolunteer
\* builds them.
MemberLists ==
    UNION { { [i \in 1..n |-> Volunteer(MemberIds[i], c[i].hasSkills,
                                        c[i].skills)] :
                c \in [1..n -> SkillListInputs] } : n \in 0..MaxMembers }

InitCoverage ==
    /\ props = [incidentId |-> NULL, hasCallback |-> FALSE]
    /\ loading = FALSE
    /\ volunteers = <<>>
    /\ skills = <<>>
    /\ selectedVolunteers \in MemberLists
    /\ teamName = <<>>
    /\ teamDescription = <<>>
    /\ leaderId = NULL
    /\ requiredSkills \in RequiredLists
    /\ location = <<>>
    /\ saving = FALSE
    /\ skillCoverage = NotRendered
    /\ request = NoRequest
    /\ requestsSent = 0
    /\ teams = <<>>
    /\ toast = "none"
    /\ callbackCalls = <<>>
    /\ ResIdle
    /\ RlsIdle
    /\ VfIdle
    /\ SsIdle
    /\ LateIdle

\* Variant: the loop consumes requiredSkills with shift().
Evaluate_Draining ==
    /\ ~skillCoverage.rendered
    /\ skillCoverage' = Render(loading, requiredSkills, selectedVolunteers)
    /\ requiredSkills' = <<>>
    /\ UNCHANGED <<props, loading, volunteers, skills, selectedVolunteers,
                   teamName, teamDescription, leaderId, location, saving,
                   request, requestsSent, teams, toast, callbackCalls>>
    /\ UNCHANGED nonTbVars

Evaluate ==
    /\ ~skillCoverage.rendered
    /\ skillCoverage' = Render(loading, requiredSkills, selectedVolunteers)
    /\ UNCHANGED <<props, loading, volunteers, skills, formVars, saving,
                   request, requestsSent, teams, toast, callbackCalls>>
    /\ UNCHANGED nonTbVars

NextCoverage == Evaluate

SpecCoverage == InitCoverage /\ [][NextCoverage]_vars

(***************************************************************************)
(* The Resources page (src/src/pages/Resources.tsx): the list, its         *)
(* refetches and the delete confirmation.  Volunteers.tsx has the same     *)
(* handleDelete on the volunteers table.                                   *)
(***************************************************************************)

\* The TeamBuilder component is not mounted.
TbIdle ==
    /\ props = [incidentId |-> NULL, hasCallback |-> FALSE]
    /\ loading = TRUE
    /\ volunteers = <<>>
    /\ skills = <<>>
    /\ selectedVolunteers = <<>>
    /\ teamName = <<>>
    /\ teamDescription = <<>>
    /\ leaderId = NULL
    /\ requiredSkills = <<>>
    /\ location = <<>>
    /\ saving = FALSE
    /\ skillCoverage = NotRendered
    /\ request = NoRequest
    /\ requestsSent = 0
    /\ teams = <<>>
    /\ toast = "none"
    /\ callbackCalls = <<>>

\* Everything that is not state of the Resources page.
nonResVars == <<tbVars, rlsVars, vfVars, ssVars, lateVars>>

\* The page has mounted: the effect has called fetchResources().
InitResources ==
    /\ TbIdle
    /\ resStore = ResourceIds
    /\ resources = {}
    /\ resLoading = TRUE
    /\ deleteConfirm = NULL
    /\ resDeletes = [r \in ResourceIds |-> 0]
    /\ resDeletesSent = 0
    /\ resFetches = 1
    /\ resReplies = <<>>
    /\ resEvents = 0
    /\ resToast = "none"
    /\ RlsIdle
    /\ VfIdle
    /\ SsIdle
    /\ LateIdle

RemoveAt(q, i) == SubSeq(q, 1, i - 1) \o SubSeq(q, i + 1, Len(q))

\* The store executes the select of a fetchResources call.
ResFetchRead(ok) ==
    /\ resFetches > 0
    /\ resFetches' = resFetches - 1
    /\ resReplies' = Append(resReplies,
                            [ok |-> ok, data |-> IF ok THEN resStore ELSE {}])
    /\ resToast' = "none"
    /\ UNCHANGED <<resStore, resources, resLoading, deleteConfirm, resDeletes,
                   resDeletesSent, resEvents>>
    /\ UNCHANGED nonResVars

\* fetchResources from its await on, for the i-th outstanding reply.
ResFetchDeliver(i) ==
    /\ i \in 1..Len(resReplies)
    /\ resources' = IF resReplies[i].ok THEN resReplies[i].data ELSE resources
    /\ resToast' = IF resReplies[i].ok THEN "none"
                   ELSE "Failed to fetch resources"
    /\ resLoading' = FALSE
    /\ resReplies' = RemoveAt(resReplies, i)
    /\ UNCHANGED <<resStore, deleteConfirm, resDeletes, resDeletesSent,
                   resFetches, resEvents>>
    /\ UNCHANGED nonResVars

\* The realtime subscription's callback: () => fetchResources().
ResRealtimeEvent ==
    /\ resEvents > 0
    /\ resEvents' = resEvents - 1
    /\ resFetches' = resFetches + 1
    /\ resToast' = "none"
    /\ UNCHANGED <<resStore, resources, resLoading, deleteConfirm, resDeletes,
                   resDeletesSent, resReplies>>
    /\ UNCHANGED nonResVars

\* The trash button of a card: setDeleteConfirm(resource.id).
ResClickTrash(id) ==
    /\ ~resLoading
    /\ id \in resources
    /\ deleteConfirm' = id
    /\ resToast' = "none"
    /\ UNCHANGED <<resStore, resources, resLoading, resDeletes,
                   resDeletesSent, resFetches, resReplies, resEvents>>
    /\ UNCHANGED nonResVars

\* The Cancel button of the confirmation overlay: setDeleteConfirm(null).
ResClickCancel ==
    /\ ~resLoading
    /\ deleteConfirm \in resources
    /\ deleteConfirm' = NULL
    /\ resToast' = "none"
    /\ UNCHANGED <<resStore, resources, resLoading, resDeletes,
                   resDeletesSent, resFetches, resReplies, resEvents>>
    /\ UNCHANGED nonResVars

\* Variant: every card shows the Delete button, confirmed or not.
ResHandleDelete_Unconfirmed(id) ==
    /\ ~resLoading
    /\ id \in resources
    /\ resDeletesSent < MaxDeletes
    /\ resDeletes' = [resDeletes EXCEPT ![id] = @ + 1]
    /\ resDeletesSent' = resDeletesSent + 1
    /\ resToast' = "none"
    /\ UNCHANGED <<resStore, resources, resLoading, deleteConfirm,
                   resFetches, resReplies, resEvents>>
    /\ UNCHANGED nonResVars

\* Variant: the card is dropped from the list before the request is sent.
ResHandleDelete_Optimistic(id) ==
    /\ ~resLoading
    /\ id \in resources
    /\ deleteConfirm = id
    /\ resDeletesSent < MaxDeletes
    /\ resources' = resources \ {id}
    /\ resDeletes' = [resDeletes EXCEPT ![id] = @ + 1]
    /\ resDeletesSent' = resDeletesSent + 1
    /\ resToast' = "none"
    /\ UNCHANGED <<resStore, resLoading, deleteConfirm, resFetches,
                   resReplies, resEvents>>
    /\ UNCHANGED nonResVars

\* The Delete button of the overlay: handleDelete(id) up to its await.
ResHandleDelete(id) ==
    /\ ~resLoading
    /\ id \in resources
    /\ deleteConfirm = id
    /\ resDeletesSent < MaxDeletes
    /\ resDeletes' = [resDeletes EXCEPT ![id] = @ + 1]
    /\ resDeletesSent' = resDeletesSent + 1
    /\ resToast' = "none"
    /\ UNCHANGED <<resStore, resources, resLoading, deleteConfirm,
                   resFetches, resReplies, resEvents>>
    /\ UNCHANGED nonResVars

\* The store executes the delete without error; handleDelete goes on:
\* toast.success, setDeleteConfirm(null), fetchResources().  A change of the
\* table is published to the realtime channel.
ResDeleteSucceeds(id) ==
    /\ resDeletes[id] > 0
    /\ resDeletes' = [resDeletes EXCEPT ![id] = @ - 1]
    /\ resStore' = resStore \ {id}
    /\ resEvents' = IF id \in resStore THEN resEvents + 1 ELSE resEvents
    /\ resToast' = "Resource deleted successfully"
    /\ deleteConfirm' = NULL
    /\ resFetches' = resFetches + 1
    /\ UNCHANGED <<resources, resLoading, resDeletesSent, resReplies>>
    /\ UNCHANGED nonResVars

\* The store answers the delete with an error; handleDelete's catch.
ResDeleteFails(id) ==
    /\ resDeletes[id] > 0
    /\ resDeletes' = [resDeletes EXCEPT ![id] = @ - 1]
    /\ resToast' = "Failed to delete resource"
    /\ UNCHANGED <<resStore, resources, resLoading, deleteConfirm,
                   resDeletesSent, resFetches, resReplies, resEvents>>
    /\ UNCHANGED nonResVars

NextResources ==
    \/ \E ok \in BOOLEAN : ResFetchRead(ok)
    \/ \E i \in 1..Len(resReplies) : ResFetchDeliver(i)
    \/ ResRealtimeEvent
    \/ \E id \in ResourceIds : ResClickTrash(id)
    \/ ResClickCancel
    \/ \E id \in ResourceIds : ResHandleDelete(id)
    \/ \E id \in ResourceIds : ResDeleteSucceeds(id)
    \/ \E id \in ResourceIds : ResDeleteFails(id)

SpecResources == InitResources /\ [][NextResources]_vars

(***************************************************************************)
(* Row-level security of the volunteers table.  A statement runs in a      *)
(* session: a role and, for an authenticated session, auth.uid().          *)
(***************************************************************************)

UserIds == {"u1", "u2"}
NameInputs == {"n1", "n2"}

Sessions ==
    { [role |-> "anon", uid |-> NULL] }
        \cup { [role |-> "authenticated", uid |-> u] : u \in UserIds }

\* SQL `auth.uid() = user_id`: not true when auth.uid() is null.
UidEquals(session, userId) == session.uid # NULL /\ session.uid = userId

\* "Volunteers can insert their own profile":
\* FOR INSERT TO authenticated WITH CHECK (auth.uid() = user_id)
VolunteersInsertCheck(session, new) ==
    session.role = "authenticated" /\ UidEquals(session, new.user_id)

\* "Volunteers can update their own profile": TO authenticated
\* USING (auth.uid() = user_id)
VolunteersUpdateUsing(session, old) ==
    session.role = "authenticated" /\ UidEquals(session, old.user_id)

\* Variant: the UPDATE policy has no WITH CHECK.
VolunteersUpdateCheck_Missing(session, new) == session.role = "authenticated"

\* WITH CHECK (auth.uid() = user_id) of the UPDATE policy
VolunteersUpdateCheck(session, new) ==
    session.role = "authenticated" /\ UidEquals(session, new.user_id)

nonRlsVars == <<tbVars, resVars, vfVars, ssVars, lateVars>>

InitRls ==
    /\ TbIdle
    /\ ResIdle
    /\ rlsRows = <<>>
    /\ rlsLast = NoStatement
    /\ VfIdle
    /\ SsIdle
    /\ LateIdle

\* INSERT INTO volunteers (user_id, name) in a session: the row is added
\* when the INSERT policy's check passes, the statement fails otherwise.
RlsInsert(session, new) ==
    /\ Len(rlsRows) < MaxRows
    /\ LET ok == VolunteersInsertCheck(session, new)
       IN /\ rlsRows' = IF ok THEN Append(rlsRows, new) ELSE rlsRows
          /\ rlsLast' = [op |-> "insert", role |-> session.role,
                         uid |-> session.uid, ok |-> ok]
    /\ UNCHANGED nonRlsVars

\* UPDATE volunteers SET user_id, name WHERE id = i in a session: a row the
\* USING expression hides is not updated (no row matches); a visible row
\* whose new version fails WITH CHECK makes the statement fail.
RlsUpdate(session, id, new) ==
    /\ \E i \in 1..Len(rlsRows) :
        /\ i = id
        /\ LET visible == VolunteersUpdateUsing(session, rlsRows[i])
               ok == visible /\ VolunteersUpdateCheck(session, new)
           IN /\ rlsRows' = IF ok THEN [rlsRows EXCEPT ![i] = new]
                            ELSE rlsRows
              /\ rlsLast' = [op |-> "update", role |-> session.role,
                             uid |-> session.uid, ok |-> ok]
    /\ UNCHANGED nonRlsVars

RowInputs == [user_id : UserIds, name : NameInputs]

NextRls ==
    \/ \E session \in Sessions, new \in RowInputs : RlsInsert(session, new)
    \/ \E session \in Sessions, id \in 1..MaxRows, new \in RowInputs :
           RlsUpdate(session, id, new)

SpecRls == InitRls /\ [][NextRls]_vars

(***************************************************************************)
(* Registering volunteers through VolunteerForm, then building a team from *)
(* the registered volunteers and the skills catalog.                       *)
(***************************************************************************)

\* Rows of the skills table: the id is a generated uuid, the name is seeded.
SkillRows ==
    << [id |-> "0b7e5a3c-uuid-1", name |-> "First Aid"],
       [id |-> "9d41f2aa-uuid-2", name |-> "Childcare"] >>

\* The skill labels VolunteerForm offers (two of the thirteen).
AVAILABLE_SKILLS == <<"First Aid", "Childcare">>

\* Ids the store gives the registered volunteers, by row number.
RegisteredIds == <<"v1", "v2", "v3">>

nonVfVars == <<tbVars, resVars, rlsVars, ssVars, lateVars>>
nonVfTbVars == <<resVars, rlsVars, ssVars, lateVars>>

InitRegistry ==
    /\ TbIdle
    /\ ResIdle
    /\ RlsIdle
    /\ VfIdle
    /\ SsIdle
    /\ LateIdle

\* Volunteers.tsx handleAdd: the form mounts with no volunteer prop.
VfHandleAdd ==
    /\ ~vfOpen
    /\ Len(vfTable) < MaxRegistered
    /\ vfOpen' = TRUE
    /\ vfSkills' = <<>>
    /\ vfLoading' = FALSE
    /\ vfToast' = "none"
    /\ UNCHANGED <<vfPending, vfTable>>
    /\ UNCHANGED nonVfVars

\* What a checkbox hands to handleSkillToggle: the label itself.
VfSkillValue(skill) == skill

\* handleSkillToggle
VfHandleSkillToggle(skill) ==
    /\ vfOpen
    /\ vfSkills' = IF Includes(vfSkills, VfSkillValue(skill))
                   THEN FilterOut(vfSkills, VfSkillValue(skill))
                   ELSE Append(vfSkills, VfSkillValue(skill))
    /\ vfToast' = "none"
    /\ UNCHANGED <<vfOpen, vfLoading, vfPending, vfTable>>
    /\ UNCHANGED nonVfVars

\* handleSubmit up to its await: the insert leaves with the skills list.
VfHandleSubmit ==
    /\ vfOpen
    /\ ~vfLoading
    /\ ~vfPending.pending
    /\ vfLoading' = TRUE
    /\ vfPending' = [pending |-> TRUE, skills |-> vfSkills]
    /\ vfToast' = "none"
    /\ UNCHANGED <<vfOpen, vfSkills, vfTable>>
    /\ UNCHANGED nonVfVars

\* The store inserted the row; onSave closes the form.
VfInsertSucceeds ==
    /\ vfPending.pending
    /\ vfTable' = Append(vfTable,
                         Volunteer(RegisteredIds[Len(vfTable) + 1], TRUE,
                                   vfPending.skills))
    /\ vfPending' = NoInsert
    /\ vfToast' = "Volunteer added!"
    /\ vfOpen' = FALSE
    /\ vfLoading' = FALSE
    /\ UNCHANGED vfSkills
    /\ UNCHANGED nonVfVars

\* The store refused the row; the form stays as it is.
VfInsertFails ==
    /\ vfPending.pending
    /\ vfPending' = NoInsert
    /\ vfToast' = "Failed to save volunteer"
    /\ vfLoading' = FALSE
    /\ UNCHANGED <<vfOpen, vfSkills, vfTable>>
    /\ UNCHANGED nonVfVars

\* TeamBuilder's fetchData reads the volunteers table and the catalog.
RegFetchData ==
    /\ loading
    /\ volunteers' = vfTable
    /\ skills' = [i \in 1..Len(SkillRows) |-> SkillRows[i].id]
    /\ loading' = FALSE
    /\ toast' = "none"
    /\ vfToast' = "none"
    /\ skillCoverage' = Render(FALSE, requiredSkills, selectedVolunteers)
    /\ UNCHANGED <<props, formVars, saving, request, requestsSent, teams,
                   callbackCalls>>
    /\ UNCHANGED <<vfOpen, vfSkills, vfLoading, vfPending, vfTable>>
    /\ UNCHANGED nonVfTbVars

NextRegistry ==
    \/ VfHandleAdd
    \/ \E i \in 1..Len(AVAILABLE_SKILLS) :
           VfHandleSkillToggle(AVAILABLE_SKILLS[i])
    \/ VfHandleSubmit
    \/ VfInsertSucceeds
    \/ VfInsertFails
    \/ RegFetchData
    \/ \E i \in 1..Len(volunteers) : HandleSelectVolunteer(volunteers[i])
    \/ \E i \in 1..Len(skills) : HandleToggleSkill(skills[i])

SpecRegistry == InitRegistry /\ [][NextRegistry]_vars

(***************************************************************************)
(* ShiftScheduler.  Dates, times and timestamps are texts: sequences of    *)
(* one-character strings, compared the way JavaScript compares strings.    *)
(***************************************************************************)

\* The characters of a timestamp, in the order of their code units.
CharOrder ==
    <<"+", "-", "0", "1", "2", "3", "4", "5", "6", "7", "8", "9", ":",
      "T", "Z">>

CharRank(c) == CHOOSE i \in 1..Len(CharOrder) : CharOrder[i] = c

RECURSIVE StrLess(_, _)
\* a < b on strings
StrLess(a, b) ==
    IF b = <<>> THEN FALSE
    ELSE IF a = <<>> THEN TRUE
    ELSE IF Head(a) = Head(b) THEN StrLess(Tail(a), Tail(b))
    ELSE CharRank(Head(a)) < CharRank(Head(b))

\* a <= b on strings
StrLeq(a, b) == a = b \/ StrLess(a, b)

\* a >= b on strings
StrGeq(a, b) == StrLeq(b, a)

\* The first two of the dates the mount effect generates (today, tomorrow).
Dates ==
    << <<"2", "0", "2", "5", "-", "0", "4", "-", "1", "3">>,
       <<"2", "0", "2", "5", "-", "0", "4", "-", "1", "4">> >>

\* const slots (id, startTime, endTime)
Slots ==
    << [id |-> "morning", startTime |-> <<"0", "8", ":", "0", "0">>,
        endTime |-> <<"1", "2", ":", "0", "0">>],
       [id |-> "afternoon", startTime |-> <<"1", "2", ":", "0", "0">>,
        endTime |-> <<"1", "6", ":", "0", "0">>],
       [id |-> "evening", startTime |-> <<"1", "6", ":", "0", "0">>,
        endTime |-> <<"2", "0", ":", "0", "0">>] >>

\* Ids of the open tasks in the store.
TaskIds == <<"t1">>

\* `${date}T${time}:00Z`
DateTime(date, time) == date \o <<"T">> \o time \o <<":", "0", "0", "Z">>

\* The store answers a timestamptz as text with its own offset notation:
\* "+00:00" (PostgREST) or "Z".
ZoneNotations == { <<"Z">>, <<"+", "0", "0", ":", "0", "0">> }

\* The text the store answers for a timestamp that was sent as `...Z`.
StoreText(ts, zone) == SubSeq(ts, 1, Len(ts) - 1) \o zone

ShiftRow(task, date, slot) ==
    [task_id |-> task,
     start_time |-> DateTime(date, slot.startTime),
     end_time |-> DateTime(date, slot.endTime)]

RECURSIVE InsertByStart(_, _)
InsertByStart(rows, row) ==
    IF rows = <<>> THEN <<row>>
    ELSE IF StrLess(row.start_time, Head(rows).start_time)
         THEN <<row>> \o rows
         ELSE <<Head(rows)>> \o InsertByStart(Tail(rows), row)

RECURSIVE OrderByStart(_)
\* .order('start_time')
OrderByStart(rows) ==
    IF rows = <<>> THEN <<>>
    ELSE InsertByStart(OrderByStart(Tail(rows)), Head(rows))

\* select('*').eq('volunteer_id', volunteerId).gte('start_time', now)
\* .order('start_time'), as the client receives it.  Every row of ssStore
\* is the volunteer's and starts after now.
SelectShifts(store, zone) ==
    LET sorted == OrderByStart(store)
    IN [i \in 1..Len(sorted) |->
            [task_id |-> sorted[i].task_id,
             start_time |-> StoreText(sorted[i].start_time, zone),
             end_time |-> StoreText(sorted[i].end_time, zone)]]

\* .limit(5)
Limit(rows, n) == SubSeq(rows, 1, IF Len(rows) < n THEN Len(rows) ELSE n)

\* timeSlots.find(s => s.id === slotId): its index, 0 when there is none.
FindSlot(slotId) ==
    IF \E i \in 1..Len(timeSlots) : timeSlots[i].id = slotId
    THEN CHOOSE i \in 1..Len(timeSlots) :
             /\ timeSlots[i].id = slotId
             /\ \A j \in 1..(i - 1) : timeSlots[j].id # slotId
    ELSE 0

isSlotAvailable(date, slotId) ==
    LET k == FindSlot(slotId)
    IN IF k = 0 THEN FALSE
       ELSE LET startDateTime == DateTime(date, timeSlots[k].startTime)
                endDateTime == DateTime(date, timeSlots[k].endTime)
            IN ~ \E i \in 1..Len(shifts) :
                     /\ StrLeq(shifts[i].start_time, endDateTime)
                     /\ StrGeq(shifts[i].end_time, startDateTime)

nonSsVars == <<tbVars, resVars, rlsVars, vfVars, lateVars>>

\* The component has mounted for a volunteer without an onShiftSaved prop:
\* the first effect has set the dates, the first date and the slots, and
\* fetchData is awaiting.  The store holds no shift or one for tomorrow
\* morning.
InitShifts ==
    /\ TbIdle
    /\ ResIdle
    /\ RlsIdle
    /\ VfIdle
    /\ ssStore \in { <<>>, <<ShiftRow(TaskIds[1], Dates[2], Slots[1])>> }
    /\ ssZone \in ZoneNotations
    /\ tasks = <<>>
    /\ shifts = <<>>
    /\ selectedDate = Dates[1]
    /\ selectedTask = ""
    /\ selectedTimeSlot = ""
    /\ ssLoading = TRUE
    /\ ssSaving = FALSE
    /\ availableDates = Dates
    /\ timeSlots = Slots
    /\ upcomingShifts = <<>>
    /\ ssPhase = "idle"
    /\ ssRequest = NoShift
    /\ ssSent = 0
    /\ ssToast = "none"
    /\ LateIdle

\* fetchData: the three selects succeed.
SsFetchDataOk ==
    /\ ssLoading
    /\ tasks' = TaskIds
    /\ shifts' = SelectShifts(ssStore, ssZone)
    /\ upcomingShifts' = Limit(SelectShifts(ssStore, ssZone), 5)
    /\ ssLoading' = FALSE
    /\ ssToast' = "none"
    /\ UNCHANGED <<ssStore, ssZone, selectedDate, selectedTask,
                   selectedTimeSlot, ssSaving, availableDates, timeSlots,
                   ssPhase, ssRequest, ssSent>>
    /\ UNCHANGED nonSsVars

\* fetchData: the select number `failed` answers an error; the earlier ones
\* have set their state.
SsFetchDataFails(failed) ==
    /\ ssLoading
    /\ tasks' = IF failed > 1 THEN TaskIds ELSE tasks
    /\ shifts' = IF failed > 2 THEN SelectShifts(ssStore, ssZone) ELSE shifts
    /\ ssLoading' = FALSE
    /\ ssToast' = "Failed to load scheduling data"
    /\ UNCHANGED <<ssStore, ssZone, selectedDate, selectedTask,
                   selectedTimeSlot, ssSaving, availableDates, timeSlots,
                   upcomingShifts, ssPhase, ssRequest, ssSent>>
    /\ UNCHANGED nonSsVars

\* A date button: onClick={() => setSelectedDate(date)}
SsSetSelectedDate(date) ==
    /\ ~ssLoading
    /\ selectedDate' = date
    /\ ssToast' = "none"
    /\ UNCHANGED <<ssStore, ssZone, tasks, shifts, selectedTask,
                   selectedTimeSlot, ssLoading, ssSaving, availableDates,
                   timeSlots, upcomingShifts, ssPhase, ssRequest, ssSent>>
    /\ UNCHANGED nonSsVars

\* The options of the task select: the placeholder and the loaded tasks.
TaskOptions == {""} \cup Range(tasks)

\* The task select: onChange={(e) => setSelectedTask(e.target.value)}
SsSetSelectedTask(value) ==
    /\ ~ssLoading
    /\ selectedDate # <<>>
    /\ value \in TaskOptions
    /\ selectedTask' = value
    /\ ssToast' = "none"
    /\ UNCHANGED <<ssStore, ssZone, tasks, shifts, selectedDate,
                   selectedTimeSlot, ssLoading, ssSaving, availableDates,
                   timeSlots, upcomingShifts, ssPhase, ssRequest, ssSent>>
    /\ UNCHANGED nonSsVars

\* A slot button: disabled={!available},
\* onClick={() => available && setSelectedTimeSlot(slot.id)}
SsClickSlot(slotId) ==
    /\ ~ssLoading
    /\ selectedDate # <<>>
    /\ isSlotAvailable(selectedDate, slotId)
    /\ selectedTimeSlot' = slotId
    /\ ssToast' = "none"
    /\ UNCHANGED <<ssStore, ssZone, tasks, shifts, selectedDate,
                   selectedTask, ssLoading, ssSaving, availableDates,
                   timeSlots, upcomingShifts, ssPhase, ssRequest, ssSent>>
    /\ UNCHANGED nonSsVars

\* What lets a click on Schedule Shift reach the insert: the button's
\* disabled expression (without saving) and the handler's first test.
SaveAllowed ==
    /\ selectedDate # <<>>
    /\ selectedTask # ""
    /\ selectedTimeSlot # ""

\* handleSaveShift up to its first await.
SsHandleSaveShift ==
    /\ ~ssLoading
    /\ ~ssSaving
    /\ SaveAllowed
    /\ FindSlot(selectedTimeSlot) # 0
    /\ ssSent < MaxShifts
    /\ ssSaving' = TRUE
    /\ ssRequest' = ShiftRow(selectedTask, selectedDate,
                             timeSlots[FindSlot(selectedTimeSlot)])
    /\ ssSent' = ssSent + 1
    /\ ssPhase' = "insert"
    /\ ssToast' = "none"
    /\ UNCHANGED <<ssStore, ssZone, tasks, shifts, selectedDate,
                   selectedTask, selectedTimeSlot, ssLoading, availableDates,
                   timeSlots, upcomingShifts>>
    /\ UNCHANGED nonSsVars

\* The store inserted the row: the selection is reset and the handler
\* awaits the refresh of shifts.
SsInsertSucceeds ==
    /\ ssPhase = "insert"
    /\ ssStore' = Append(ssStore, ssRequest)
    /\ ssRequest' = NoShift
    /\ ssToast' = "Shift scheduled successfully!"
    /\ selectedTask' = ""
    /\ selectedTimeSlot' = ""
    /\ ssPhase' = "shifts"
    /\ UNCHANGED <<ssZone, tasks, shifts, selectedDate, ssLoading, ssSaving,
                   availableDates, timeSlots, upcomingShifts, ssSent>>
    /\ UNCHANGED nonSsVars

\* The store answered an error: catch, then finally.
SsInsertFails ==
    /\ ssPhase = "insert"
    /\ ssRequest' = NoShift
    /\ ssToast' = "Failed to schedule shift"
    /\ ssSaving' = FALSE
    /\ ssPhase' = "idle"
    /\ UNCHANGED <<ssStore, ssZone, tasks, shifts, selectedDate,
                   selectedTask, selectedTimeSlot, ssLoading, availableDates,
                   timeSlots, upcomingShifts, ssSent>>
    /\ UNCHANGED nonSsVars

\* The refresh of shifts answers; the handler awaits the upcoming shifts.
SsRefreshShifts(ok) ==
    /\ ssPhase = "shifts"
    /\ shifts' = IF ok THEN SelectShifts(ssStore, ssZone) ELSE shifts
    /\ ssPhase' = "upcoming"
    /\ ssToast' = "none"
    /\ UNCHANGED <<ssStore, ssZone, tasks, selectedDate, selectedTask,
                   selectedTimeSlot, ssLoading, ssSaving, availableDates,
                   timeSlots, upcomingShifts, ssRequest, ssSent>>
    /\ UNCHANGED nonSsVars

\* The refresh of the upcoming shifts answers; finally.
SsRefreshUpcoming(ok) ==
    /\ ssPhase = "upcoming"
    /\ upcomingShifts' = IF ok THEN Limit(SelectShifts(ssStore, ssZone), 5)
                         ELSE upcomingShifts
    /\ ssSaving' = FALSE
    /\ ssPhase' = "idle"
    /\ ssToast' = "none"
    /\ UNCHANGED <<ssStore, ssZone, tasks, shifts, selectedDate,
                   selectedTask, selectedTimeSlot, ssLoading, availableDates,
                   timeSlots, ssRequest, ssSent>>
    /\ UNCHANGED nonSsVars

NextShifts ==
    \/ SsFetchDataOk
    \/ \E failed \in 1..3 : SsFetchDataFails(failed)
    \/ \E date \in Range(Dates) : SsSetSelectedDate(date)
    \/ \E value \in {""} \cup Range(TaskIds) : SsSetSelectedTask(value)
    \/ \E slotId \in {"morning", "afternoon", "evening"} : SsClickSlot(slotId)
    \/ SsHandleSaveShift
    \/ SsInsertSucceeds
    \/ SsInsertFails
    \/ \E ok \in BOOLEAN : SsRefreshShifts(ok)
    \/ \E ok \in BOOLEAN : SsRefreshUpcoming(ok)

SpecShifts == InitShifts /\ [][NextShifts]_vars

(***************************************************************************)
(* The components modelled after ShiftScheduler share these.               *)
(***************************************************************************)

earlyVars == <<tbVars, resVars, rlsVars, vfVars, ssVars>>

EarlyIdle ==
    /\ TbIdle
    /\ ResIdle
    /\ RlsIdle
    /\ VfIdle
    /\ SsIdle

(***************************************************************************)
(* NotificationCenter                                                      *)
(***************************************************************************)

Notification(id, read, link) == [id |-> id, read |-> read, link |-> link]

\* const mockNotifications
mockNotifications ==
    << Notification("1", FALSE, "/incidents"),
       Notification("2", FALSE, "/resources"),
       Notification("3", TRUE, "/volunteers") >>

\* notifications.filter(notification => !notification.read).length
UnreadOf(list) == Cardinality({ i \in 1..Len(list) : ~list[i].read })

UserInputs == {NULL, "u1", "u2"}

nonNcVars == <<earlyVars, incVars, appVars, skVars>>

\* A user is signed in: the component has mounted and its effect has run.
InitNotifications ==
    /\ EarlyIdle
    /\ ncUser = "u1"
    /\ notifications = mockNotifications
    /\ showNotifications = FALSE
    /\ unreadCount = UnreadOf(mockNotifications)
    /\ ncRoute = "/"
    /\ ncLast = "none"
    /\ IncIdle
    /\ AppIdle
    /\ SkIdle

\* The context's user changes.  Without a user the component is unmounted
\* and its state is gone; with a user it is mounted (or stays mounted) and
\* the effect on [user] installs the mock notifications.
NcUserChanges(user) ==
    /\ user # ncUser
    /\ ncUser' = user
    /\ notifications' = IF user = NULL THEN <<>> ELSE mockNotifications
    /\ unreadCount' = IF user = NULL THEN 0 ELSE UnreadOf(mockNotifications)
    /\ showNotifications' = IF user = NULL \/ ncUser = NULL THEN FALSE
                            ELSE showNotifications
    /\ ncLast' = "auth"
    /\ UNCHANGED ncRoute
    /\ UNCHANGED nonNcVars

\* The bell button.
NcToggle ==
    /\ ncUser # NULL
    /\ showNotifications' = ~showNotifications
    /\ ncLast' = "bell"
    /\ UNCHANGED <<ncUser, notifications, unreadCount, ncRoute>>
    /\ UNCHANGED nonNcVars

\* prev.map(n => n.id === id ? { ...n, read: true } : n)
ReadAfterMark(list, id) ==
    [i \in 1..Len(list) |->
        IF list[i].id = id THEN [list[i] EXCEPT !.read = TRUE] ELSE list[i]]

\* Math.max(0, prev - 1)
CountAfterMark(prev) == IF prev - 1 > 0 THEN prev - 1 ELSE 0

\* The X button of an unread notification: markAsRead(id).
NcClickX(id) ==
    /\ ncUser # NULL
    /\ showNotifications
    /\ \E i \in 1..Len(notifications) :
           notifications[i].id = id /\ ~notifications[i].read
    /\ notifications' = ReadAfterMark(notifications, id)
    /\ unreadCount' = CountAfterMark(unreadCount)
    /\ ncLast' = "x"
    /\ UNCHANGED <<ncUser, showNotifications, ncRoute>>
    /\ UNCHANGED nonNcVars

\* The "View details" link of a notification that has a link:
\* markAsRead(id), then the router goes to the link.
NcClickViewDetails(id) ==
    /\ ncUser # NULL
    /\ showNotifications
    /\ \E i \in 1..Len(notifications) :
           /\ notifications[i].id = id
           /\ notifications[i].link # NULL
           /\ ncRoute' = notifications[i].link
    /\ notifications' = ReadAfterMark(notifications, id)
    /\ unreadCount' = CountAfterMark(unreadCount)
    /\ ncLast' = "link"
    /\ UNCHANGED <<ncUser, showNotifications>>
    /\ UNCHANGED nonNcVars

\* "Mark all as read", shown while unreadCount > 0.
NcMarkAllAsRead ==
    /\ ncUser # NULL
    /\ showNotifications
    /\ unreadCount > 0
    /\ notifications' = [i \in 1..Len(notifications) |->
                            [notifications[i] EXCEPT !.read = TRUE]]
    /\ unreadCount' = 0
    /\ ncLast' = "all"
    /\ UNCHANGED <<ncUser, showNotifications, ncRoute>>
    /\ UNCHANGED nonNcVars

NextNotifications ==
    \/ \E user \in UserInputs : NcUserChanges(user)
    \/ NcToggle
    \/ \E id \in {"1", "2", "3"} : NcClickX(id)
    \/ \E id \in {"1", "2", "3"} : NcClickViewDetails(id)
    \/ NcMarkAllAsRead

SpecNotifications == InitNotifications /\ [][NextNotifications]_vars

(***************************************************************************)
(* The Incidents page                                                      *)
(***************************************************************************)

nonIncVars == <<earlyVars, ncVars, appVars, skVars>>

\* The page has mounted: the effect has called fetchIncidents() and has
\* subscribed to the table's changes.
InitIncidents ==
    /\ EarlyIdle
    /\ NcIdle
    /\ incStore = [i \in IncidentIds |-> IF i = "i1" THEN 1 ELSE 0]
    /\ incidents = NoIncidents
    /\ incLoading = TRUE
    /\ showForm = FALSE
    /\ selectedIncident = NULL
    /\ incFetches = 1
    /\ incReplies = <<>>
    /\ incEvents = 0
    /\ incSaves = <<>>
    /\ incSent = 0
    /\ incChanges = 0
    /\ incFetchFailed = FALSE
    /\ incLast = "none"
    /\ AppIdle
    /\ SkIdle

\* The store executes the select of a fetchIncidents call.
IncFetchRead(ok) ==
    /\ incFetches > 0
    /\ incFetches' = incFetches - 1
    /\ incReplies' = Append(incReplies, [ok |-> ok, data |-> incStore])
    /\ incLast' = "none"
    /\ UNCHANGED <<incStore, incidents, incLoading, showForm,
                   selectedIncident, incEvents, incSaves, incSent,
                   incChanges, incFetchFailed>>
    /\ UNCHANGED nonIncVars

\* A reply reaches its fetchIncidents call, in any order: setIncidents on
\* success, the toast on error, setLoading(false) in both cases.
IncFetchDeliver(i) ==
    /\ i \in 1..Len(incReplies)
    /\ incReplies' = RemoveAt(incReplies, i)
    /\ incidents' = IF incReplies[i].ok THEN incReplies[i].data ELSE incidents
    /\ incLoading' = FALSE
    /\ incFetchFailed' = (incFetchFailed \/ ~incReplies[i].ok)
    /\ incLast' = IF incReplies[i].ok THEN "none"
                  ELSE "Failed to fetch incidents"
    /\ UNCHANGED <<incStore, showForm, selectedIncident, incFetches,
                   incEvents, incSaves, incSent, incChanges>>
    /\ UNCHANGED nonIncVars

\* The subscription's callback: () => fetchIncidents()
IncRealtimeEvent ==
    /\ incEvents > 0
    /\ incEvents' = incEvents - 1
    /\ incFetches' = incFetches + 1
    /\ incLast' = "none"
    /\ UNCHANGED <<incStore, incidents, incLoading, showForm,
                   selectedIncident, incReplies, incSaves, incSent,
                   incChanges, incFetchFailed>>
    /\ UNCHANGED nonIncVars

\* The table after a row is written: its revision goes up by one.
StoreAfterWrite(store, id) == [store EXCEPT ![id] = store[id] + 1]

\* Somebody else writes a row of the table.
IncStoreChanges(id) ==
    /\ incChanges < MaxIncidentChanges
    /\ incStore' = StoreAfterWrite(incStore, id)
    /\ incChanges' = incChanges + 1
    /\ incEvents' = incEvents + 1
    /\ incLast' = "none"
    /\ UNCHANGED <<incidents, incLoading, showForm, selectedIncident,
                   incFetches, incReplies, incSaves, incSent, incFetchFailed>>
    /\ UNCHANGED nonIncVars

\* A click on the card of a listed incident.
IncHandleEdit(id) ==
    /\ ~incLoading
    /\ ~showForm
    /\ incidents[id] > 0
    /\ selectedIncident' = id
    /\ showForm' = TRUE
    /\ incLast' = "edit"
    /\ UNCHANGED <<incStore, incidents, incLoading, incFetches, incReplies,
                   incEvents, incSaves, incSent, incChanges, incFetchFailed>>
    /\ UNCHANGED nonIncVars

\* Report Incident: onClick={() => setShowForm(true)}
IncClickReport ==
    /\ ~incLoading
    /\ ~showForm
    /\ showForm' = TRUE
    /\ incLast' = "report"
    /\ UNCHANGED <<incStore, incidents, incLoading, selectedIncident,
                   incFetches, incReplies, incEvents, incSaves, incSent,
                   incChanges, incFetchFailed>>
    /\ UNCHANGED nonIncVars

\* The requests of a form that was unmounted belong to no mounted form.
Detached(saves) == [k \in 1..Len(saves) |-> [saves[k] EXCEPT !.current = FALSE]]

\* Variant: closing the form keeps the selected incident.
SelectedAfterClose_Keep(selected) == selected

\* setSelectedIncident(null) in handleCloseForm and handleSaveForm
SelectedAfterClose(selected) == NULL

\* The form's Cancel button: handleCloseForm.
IncHandleCloseForm ==
    /\ ~incLoading
    /\ showForm
    /\ showForm' = FALSE
    /\ selectedIncident' = SelectedAfterClose(selectedIncident)
    /\ incSaves' = Detached(incSaves)
    /\ incLast' = "cancel"
    /\ UNCHANGED <<incStore, incidents, incLoading, incFetches, incReplies,
                   incEvents, incSent, incChanges, incFetchFailed>>
    /\ UNCHANGED nonIncVars

\* IncidentForm's loading: the mounted form has a request in flight.
FormLoading == \E k \in 1..Len(incSaves) : incSaves[k].current

\* IncidentForm.handleSubmit up to its await: an update of the incident the
\* form was opened with, an insert when it was opened without one.
IncFormSubmit ==
    /\ ~incLoading
    /\ showForm
    /\ ~FormLoading
    /\ incSent < MaxIncidentSaves
    /\ incSaves' = Append(incSaves, [incident |-> selectedIncident,
                                     current |-> TRUE])
    /\ incSent' = incSent + 1
    /\ incLast' = "submit"
    /\ UNCHANGED <<incStore, incidents, incLoading, showForm,
                   selectedIncident, incFetches, incReplies, incEvents,
                   incChanges, incFetchFailed>>
    /\ UNCHANGED nonIncVars

\* The row an answered request wrote: the incident it updates, or for an
\* insert a row that did not exist.
WrittenIds(save) ==
    IF save.incident # NULL THEN {save.incident}
    ELSE { id \in IncidentIds : incStore[id] = 0 }

\* The store wrote the row: toast, then onSave = handleSaveForm closes the
\* form, clears the selection and calls fetchIncidents().
IncSaveSucceeds(k) ==
    /\ k \in 1..Len(incSaves)
    /\ incChanges < MaxIncidentChanges
    /\ \E id \in WrittenIds(incSaves[k]) :
           incStore' = StoreAfterWrite(incStore, id)
    /\ incChanges' = incChanges + 1
    /\ incEvents' = incEvents + 1
    /\ incSaves' = Detached(RemoveAt(incSaves, k))
    /\ showForm' = FALSE
    /\ selectedIncident' = SelectedAfterClose(selectedIncident)
    /\ incFetches' = incFetches + 1
    /\ incLast' = IF incSaves[k].incident # NULL THEN "Incident updated!"
                  ELSE "Incident reported!"
    /\ UNCHANGED <<incidents, incLoading, incReplies, incSent,
                   incFetchFailed>>
    /\ UNCHANGED nonIncVars

\* The store answered an error: the toast, and the form stays.
IncSaveFails(k) ==
    /\ k \in 1..Len(incSaves)
    /\ incSaves' = RemoveAt(incSaves, k)
    /\ incLast' = "Failed to save incident"
    /\ UNCHANGED <<incStore, incidents, incLoading, showForm,
                   selectedIncident, incFetches, incReplies, incEvents,
                   incSent, incChanges, incFetchFailed>>
    /\ UNCHANGED nonIncVars

NextIncidents ==
    \/ \E ok \in BOOLEAN : IncFetchRead(ok)
    \/ \E i \in 1..(MaxIncidentChanges + MaxIncidentSaves + 1) :
           IncFetchDeliver(i)
    \/ IncRealtimeEvent
    \/ \E id \in IncidentIds : IncStoreChanges(id)
    \/ \E id \in IncidentIds : IncHandleEdit(id)
    \/ IncClickReport
    \/ IncHandleCloseForm
    \/ IncFormSubmit
    \/ \E k \in 1..MaxIncidentSaves : IncSaveSucceeds(k)
    \/ \E k \in 1..MaxIncidentSaves : IncSaveFails(k)

SpecIncidents == InitIncidents /\ [][NextIncidents]_vars

(***************************************************************************)
(* App: checkUser and the onAuthStateChange subscription                   *)
(***************************************************************************)

nonAppVars == <<earlyVars, ncVars, incVars, skVars>>

\* App has mounted: checkUser() awaits getUser() and the subscription is
\* installed.  Somebody may be signed in already, and the auth client may
\* or may not announce the session it starts with.
InitApp ==
    /\ EarlyIdle
    /\ NcIdle
    /\ IncIdle
    /\ appSession \in {NULL, "u1"}
    /\ appUser = NULL
    /\ appLoading = TRUE
    /\ appCheck = "sent"
    /\ appCheckReply = NoReply
    /\ appEvents \in { <<>>, <<appSession>> }
    /\ appChanges = 0
    /\ SkIdle

\* A sign-in or a sign-out: the session changes and the auth client queues
\* an event for the subscribers.
AppAuthChange(user) ==
    /\ appChanges < MaxAuthChanges
    /\ user # appSession
    /\ appSession' = user
    /\ appEvents' = Append(appEvents, user)
    /\ appChanges' = appChanges + 1
    /\ UNCHANGED <<appUser, appLoading, appCheck, appCheckReply>>
    /\ UNCHANGED nonAppVars

\* getUser() is answered with the user of the session of that moment, or
\* fails.
AppGetUserRead(ok) ==
    /\ appCheck = "sent"
    /\ appCheck' = "replied"
    /\ appCheckReply' = [ok |-> ok, user |-> IF ok THEN appSession ELSE NULL]
    /\ UNCHANGED <<appSession, appUser, appLoading, appEvents, appChanges>>
    /\ UNCHANGED nonAppVars

\* checkUser resumes after its await: setUser(user), or the catch; finally
\* setLoading(false).
AppCheckUserSettles ==
    /\ appCheck = "replied"
    /\ appCheck' = "done"
    /\ appUser' = IF appCheckReply.ok THEN appCheckReply.user ELSE appUser
    /\ appLoading' = FALSE
    /\ UNCHANGED <<appSession, appCheckReply, appEvents, appChanges>>
    /\ UNCHANGED nonAppVars

\* The subscription's callback: setUser(session?.user || null)
AppAuthEvent ==
    /\ appEvents # <<>>
    /\ appUser' = Head(appEvents)
    /\ appEvents' = Tail(appEvents)
    /\ UNCHANGED <<appSession, appLoading, appCheck, appCheckReply,
                   appChanges>>
    /\ UNCHANGED nonAppVars

NextApp ==
    \/ \E user \in UserInputs : AppAuthChange(user)
    \/ \E ok \in BOOLEAN : AppGetUserRead(ok)
    \/ AppCheckUserSettles
    \/ AppAuthEvent

SpecApp == InitApp /\ [][NextApp]_vars

(***************************************************************************)
(* SkillsSelector                                                          *)
(***************************************************************************)

\* Names of rows of the skills table, as .order('name') returns them.
SkillNames == <<"CPR", "Driving", "First Aid">>

\* All lists of at most n skill names.
SkillLists(n) == UNION { [1..k -> Range(SkillNames)] : k \in 0..n }

nonSkVars == <<earlyVars, ncVars, incVars, appVars>>

\* The component has mounted with the parent's list and maxSkills;
\* fetchSkills is awaiting.
InitSkills ==
    /\ EarlyIdle
    /\ NcIdle
    /\ IncIdle
    /\ AppIdle
    /\ skSelected \in SkillLists(MaxSelectedLen)
    /\ skMax \in 0..MaxSkillsProp
    /\ skCatalog = <<>>
    /\ skLoading = TRUE
    /\ skShowDropdown = FALSE
    /\ skLast = NoCall

\* fetchSkills: the select succeeds.
SkFetchSkillsOk ==
    /\ skLoading
    /\ skCatalog' = SkillNames
    /\ skLoading' = FALSE
    /\ skLast' = NoCall
    /\ UNCHANGED <<skSelected, skMax, skShowDropdown>>
    /\ UNCHANGED nonSkVars

\* fetchSkills: the select fails ('Failed to load skills').
SkFetchSkillsFails ==
    /\ skLoading
    /\ skLoading' = FALSE
    /\ skLast' = NoCall
    /\ UNCHANGED <<skSelected, skMax, skCatalog, skShowDropdown>>
    /\ UNCHANGED nonSkVars

\* The search input's onFocus, and the dropdown's close button.
SkSetShowDropdown(value) ==
    /\ skShowDropdown # value
    /\ skShowDropdown' = value
    /\ skLast' = NoCall
    /\ UNCHANGED <<skSelected, skMax, skCatalog, skLoading>>
    /\ UNCHANGED nonSkVars

\* Variant: the limit test is `>` where the code has `>=`.
ToggleSkillCall_OffByOne(selected, max, skillName) ==
    IF Includes(selected, skillName)
    THEN [called |-> TRUE, list |-> FilterOut(selected, skillName)]
    ELSE IF Len(selected) > max
         THEN [called |-> FALSE, list |-> <<>>]
         ELSE [called |-> TRUE, list |-> Append(selected, skillName)]

\* toggleSkill: whether it calls onChange, and with which list.
ToggleSkillCall(selected, max, skillName) ==
    IF Includes(selected, skillName)
    THEN [called |-> TRUE, list |-> FilterOut(selected, skillName)]
    ELSE IF Len(selected) >= max
         THEN [called |-> FALSE, list |-> <<>>]
         ELSE [called |-> TRUE, list |-> Append(selected, skillName)]

\* A skill button of the dropdown: toggleSkill(skill.name).  The parent
\* stores the list onChange receives.
SkToggleSkill(skillName) ==
    /\ skShowDropdown
    /\ ~skLoading
    /\ Includes(skCatalog, skillName)
    /\ LET call == ToggleSkillCall(skSelected, skMax, skillName)
       IN /\ skSelected' = IF call.called THEN call.list ELSE skSelected
          /\ skLast' = [handler |-> "toggleSkill", skill |-> skillName,
                        called |-> call.called, list |-> call.list]
    /\ UNCHANGED <<skMax, skCatalog, skLoading, skShowDropdown>>
    /\ UNCHANGED nonSkVars

\* The X of a selected skill's chip: removeSkill(skill).
SkRemoveSkill(skillName) ==
    /\ Includes(skSelected, skillName)
    /\ skSelected' = FilterOut(skSelected, skillName)
    /\ skLast' = [handler |-> "removeSkill", skill |-> skillName,
                  called |-> TRUE, list |-> FilterOut(skSelected, skillName)]
    /\ UNCHANGED <<skMax, skCatalog, skLoading, skShowDropdown>>
    /\ UNCHANGED nonSkVars

NextSkills ==
    \/ SkFetchSkillsOk
    \/ SkFetchSkillsFails
    \/ \E value \in BOOLEAN : SkSetShowDropdown(value)
    \/ \E skillName \in Range(SkillNames) : SkToggleSkill(skillName)
    \/ \E skillName \in Range(SkillNames) : SkRemoveSkill(skillName)

SpecSkills == InitSkills /\ [][NextSkills]_vars

(***************************************************************************)
(* Properties                                                              *)
(***************************************************************************)

TypeOK ==
    /\ loading \in BOOLEAN
    /\ saving \in BOOLEAN
    /\ requestsSent \in 0..MaxCreates
    /\ Len(teams) <= requestsSent

\* Some member holds skill s (a member without a skills list holds none).
Holds(M, s) == \E i \in 1..Len(M) : M[i].hasSkills /\ s \in Range(M[i].skills)

\* C1: covered and missing together hold exactly the required skills, each
\* once, and no skill is in both.
C1_Partition ==
    skillCoverage.rendered =>
        /\ Range(skillCoverage.covered) \cup Range(skillCoverage.missing)
               = Range(requiredSkills)
        /\ Range(skillCoverage.covered) \cap Range(skillCoverage.missing) = {}
        /\ Len(skillCoverage.covered) + Len(skillCoverage.missing)
               = Len(requiredSkills)

C1_Witness ==
    /\ skillCoverage.rendered
    /\ Len(skillCoverage.covered) = 1
    /\ Len(skillCoverage.missing) = 1
    /\ Len(selectedVolunteers) = 2

\* C2: a required skill is in covered iff some selected volunteer's skills
\* list contains it, and in missing otherwise; the two scenarios of the
\* specification come out as stated.
C2_CoveredIffHeld ==
    skillCoverage.rendered =>
        /\ \A s \in Range(requiredSkills) :
               /\ s \in Range(skillCoverage.covered)
                      <=> Holds(selectedVolunteers, s)
               /\ s \in Range(skillCoverage.missing)
                      <=> ~Holds(selectedVolunteers, s)
        /\ ( /\ requiredSkills = <<"FirstAid", "Driving">>
             /\ selectedVolunteers =
                    << Volunteer("v1", TRUE, <<"FirstAid">>),
                       Volunteer("v2", TRUE, <<"Driving", "CPR">>) >> )
           => /\ skillCoverage.covered = <<"FirstAid", "Driving">>
              /\ skillCoverage.missing = <<>>
        /\ ( /\ requiredSkills = <<"Translation">>
             /\ selectedVolunteers =
                    << Volunteer("v1", TRUE, <<"FirstAid">>) >> )
           => /\ skillCoverage.covered = <<>>
              /\ skillCoverage.missing = <<"Translation">>

C2_Witness ==
    /\ skillCoverage.rendered
    /\ requiredSkills = <<"FirstAid", "Driving">>
    /\ selectedVolunteers = << Volunteer("v1", TRUE, <<"FirstAid">>),
                               Volunteer("v2", TRUE, <<"Driving", "CPR">>) >>

\* The form would be rejected by the validation the claim describes.
InvalidForm ==
    \/ Trim(teamName) = <<>>
    \/ Len(selectedVolunteers) = 0
    \/ leaderId = NULL

ValidationNotices ==
    { "Team name is required",
      "Please select at least one volunteer",
      "Please designate a team leader" }

\* C3: while the name is blank, or nobody is selected, or no leader is set,
\* no step (a click on Create Team included) sends an insert request or
\* creates a team row.
C3_NoInsertWhenInvalid ==
    [][ (~saving /\ InvalidForm) =>
            /\ requestsSent' = requestsSent
            /\ ~request'.pending
            /\ teams' = teams ]_vars

C3_Witness ==
    /\ toast = "Team name is required"
    /\ teamName = <<" ">>
    /\ Len(selectedVolunteers) > 0
    /\ leaderId # NULL
    /\ requestsSent = 0

\* C4: leaderId is null or the id of a selected volunteer, and the leader_id
\* of every submitted row is among its members.
C4_LeaderIsMember ==
    /\ leaderId = NULL
       \/ \E i \in 1..Len(selectedVolunteers) :
              selectedVolunteers[i].id = leaderId
    /\ request.pending =>
           request.row.leader_id \in Range(request.row.members)

C4_Witness ==
    /\ request.pending
    /\ request.row.leader_id = "v2"
    /\ request.row.members = <<"v1", "v2">>
    /\ leaderId = NULL
    /\ Len(selectedVolunteers) = 1

\* C5: a step that shows a validation notice (a rejected Create Team click)
\* changes none of teamName, teamDescription, location, selectedVolunteers,
\* leaderId, requiredSkills and saving.
C5_RejectionChangesNothing ==
    [][ toast' \in ValidationNotices => UNCHANGED <<formVars, saving>> ]_vars

C5_Witness ==
    /\ toast = "Please designate a team leader"
    /\ teamDescription # <<>>
    /\ location # <<>>
    /\ requiredSkills # <<>>
    /\ ~saving

\* C6: an insert request is sent only by a Create Team click on a valid
\* form while none is pending; the click sends exactly one, whose fields are
\* the form values of that moment, and nothing else ever sends a request.
C6_SingleInsert ==
    [][ (requestsSent' # requestsSent \/ (saving' /\ ~saving)
           \/ (request'.pending /\ request' # request)) =>
            /\ ~saving
            /\ ~request.pending
            /\ ~InvalidForm
            /\ requestsSent' = requestsSent + 1
            /\ saving'
            /\ request'.pending
            /\ request'.row =
                 [name |-> teamName,
                  description |-> teamDescription,
                  leader_id |-> leaderId,
                  members |-> [i \in 1..Len(selectedVolunteers) |->
                                   selectedVolunteers[i].id],
                  skills_required |-> requiredSkills,
                  active |-> TRUE,
                  incident_id |-> props.incidentId,
                  location |-> IF location = <<>> THEN <<NULL>> ELSE location]
            /\ teams' = teams
            /\ UNCHANGED formVars ]_vars

C6_Witness ==
    /\ request.pending
    /\ requestsSent = 1
    /\ request.row.location = <<NULL>>
    /\ request.row.incident_id = "inc1"
    /\ request.row.skills_required = <<"Driving", "FirstAid">>

\* C7: when a pending insert ends without a new team row (it failed), the
\* failure notice is shown, no request is sent or left pending, onTeamCreated
\* is not called, the form fields keep their values and saving is false.
C7_FailureLeavesForm ==
    [][ (request.pending /\ ~request'.pending /\ teams' = teams) =>
            /\ toast' = "Failed to create team"
            /\ UNCHANGED formVars
            /\ saving' = FALSE
            /\ callbackCalls' = callbackCalls
            /\ requestsSent' = requestsSent ]_vars

C7_Witness ==
    /\ toast = "Failed to create team"
    /\ Trim(teamName) # <<>>
    /\ leaderId # NULL
    /\ ~saving
    /\ ~request.pending
    /\ teams = <<>>

\* C8: when a pending insert creates a team row, the form is reset to its
\* empty state, the success notice is shown, saving is false and
\* onTeamCreated, when provided, is called once with the id of the new row.
C8_SuccessResetsForm ==
    [][ Len(teams') = Len(teams) + 1 =>
            /\ teamName' = <<>>
            /\ teamDescription' = <<>>
            /\ location' = <<>>
            /\ leaderId' = NULL
            /\ selectedVolunteers' = <<>>
            /\ requiredSkills' = <<>>
            /\ toast' = "Team created successfully!"
            /\ saving' = FALSE
            /\ callbackCalls' =
                 IF props.hasCallback
                 THEN Append(callbackCalls, teams'[Len(teams')])
                 ELSE callbackCalls ]_vars

C8_Witness ==
    /\ toast = "Team created successfully!"
    /\ callbackCalls = <<1>>
    /\ teams = <<1>>
    /\ teamName = <<>>
    /\ selectedVolunteers = <<>>

\* C9: every selected volunteer, with or without skills, can be made the
\* leader whatever leaderId was, and a step that designates a leader changes
\* nothing but leaderId.
C9_SetLeaderReplaces ==
    /\ [](~loading =>
             \A i \in 1..Len(selectedVolunteers) :
                 ENABLED ( /\ HandleSetLeader(selectedVolunteers[i].id)
                           /\ leaderId' = selectedVolunteers[i].id ))
    /\ [][ (leaderId' # leaderId /\ leaderId' # NULL) =>
               /\ \E i \in 1..Len(selectedVolunteers) :
                      selectedVolunteers[i].id = leaderId'
               /\ UNCHANGED <<teamName, teamDescription, location,
                              selectedVolunteers, requiredSkills, saving,
                              request, requestsSent, teams,
                              callbackCalls>> ]_vars

C9_Witness ==
    /\ leaderId = "v2"
    /\ selectedVolunteers = << VolunteerDirectory[1], VolunteerDirectory[2] >>
    /\ requiredSkills = <<"FirstAid">>

\* C10: whenever the form is rendered, the coverage shown is the one of the
\* current requiredSkills and selectedVolunteers: the required skills held
\* by a member, in order, and the required skills held by none.
C10_CoverageIsCurrent ==
    skillCoverage =
        IF loading THEN NotRendered
        ELSE [rendered |-> TRUE,
              covered |-> SelectSeq(requiredSkills,
                              LAMBDA s : Holds(selectedVolunteers, s)),
              missing |-> SelectSeq(requiredSkills,
                              LAMBDA s : ~Holds(selectedVolunteers, s))]

C10_Witness ==
    /\ ~loading
    /\ skillCoverage.covered = <<"FirstAid">>
    /\ skillCoverage.missing = <<"Driving">>
    /\ Len(selectedVolunteers) = 2
    /\ saving

\* C11: with no required skill, covered and missing are both empty whoever
\* is selected.
C11_EmptyRequired ==
    (skillCoverage.rendered /\ requiredSkills = <<>>) =>
        /\ skillCoverage.covered = <<>>
        /\ skillCoverage.missing = <<>>

C11_Witness ==
    /\ skillCoverage.rendered
    /\ requiredSkills = <<>>
    /\ Len(selectedVolunteers) = 2
    /\ selectedVolunteers[1].skills = <<"Driving", "CPR">>

\* C12: with nobody selected the evaluation completes, every required skill
\* is missing, in the order of requiredSkills, and none is covered.
C12_EmptyMembers ==
    /\ (~skillCoverage.rendered) => ENABLED Evaluate
    /\ (skillCoverage.rendered /\ selectedVolunteers = <<>>) =>
           /\ skillCoverage.missing = requiredSkills
           /\ skillCoverage.covered = <<>>

C12_Witness ==
    /\ skillCoverage.rendered
    /\ selectedVolunteers = <<>>
    /\ skillCoverage.missing = <<"Translation", "FirstAid">>

\* C14: a step that evaluates the coverage changes skillCoverage only: the
\* required skills, the selected volunteers and their skills, the leader,
\* every other state cell and the requests sent stay as they were.
C14_EvaluationIsPure ==
    [][ skillCoverage' # skillCoverage =>
            UNCHANGED <<props, loading, volunteers, skills, formVars, saving,
                        request, requestsSent, teams, toast,
                        callbackCalls>> ]_vars

C14_Witness ==
    /\ skillCoverage.rendered
    /\ Len(requiredSkills) = 2
    /\ Len(selectedVolunteers) = 1
    /\ requestsSent = 0
    /\ ~request.pending

\* C16: when the store answers every request, saving never stays true: each
\* attempt ends with saving false and no request pending, so the Create Team
\* button is enabled again; a rejected click never sets saving.
C16_SavingEnds ==
    /\ saving ~> (~saving /\ ~request.pending)
    /\ [][ toast' \in ValidationNotices => ~saving' ]_vars

C16_Witness ==
    /\ ~saving
    /\ requestsSent = 1
    /\ ~request.pending
    /\ toast = "Please select at least one volunteer"

\* C17: selectedVolunteers never holds two entries with the same id;
\* selecting a selected volunteer leaves the list as it is, and removing an
\* id that is not selected leaves the list and the leader as they are.
C17_NoDuplicateMembers ==
    /\ [](\A i, j \in 1..Len(selectedVolunteers) :
              i # j => selectedVolunteers[i].id # selectedVolunteers[j].id)
    /\ [][ \A k \in 1..Len(volunteers) :
             /\ ( /\ HandleSelectVolunteer(volunteers[k])
                  /\ volunteers[k].id \in Range(MapIds(selectedVolunteers)) )
                => UNCHANGED selectedVolunteers
             /\ ( /\ HandleRemoveVolunteer(volunteers[k].id)
                  /\ volunteers[k].id \notin Range(MapIds(selectedVolunteers)) )
                => UNCHANGED <<selectedVolunteers, leaderId>> ]_vars

C17_Witness ==
    /\ MapIds(selectedVolunteers) = <<"v2", "v1">>
    /\ leaderId = "v1"
    /\ toast = "none"
    /\ teamName = <<" ">>

\* C15 as stated: a delete takes the item out of the in-memory list before
\* its request is sent, so no pending delete is for an item still listed.
C15_OptimisticDelete ==
    \A id \in ResourceIds : resDeletes[id] > 0 => id \notin resources

\* C15 as the code has it: sending a delete request changes neither the
\* in-memory list nor the table; the list changes only when a reply of
\* fetchResources is delivered; a failed delete shows its notice and leaves
\* the list, deleteConfirm and the pending fetches as they were.
C15_AwaitThenRefetch ==
    [][ /\ resDeletesSent' # resDeletesSent =>
               UNCHANGED <<resources, resStore, deleteConfirm>>
        /\ resources' # resources => Len(resReplies') < Len(resReplies)
        /\ resToast' = "Failed to delete resource" =>
               UNCHANGED <<resources, resStore, deleteConfirm, resFetches,
                           resReplies, resDeletesSent>> ]_vars

C15_Witness ==
    /\ resToast = "Failed to delete resource"
    /\ deleteConfirm = "r1"
    /\ "r1" \in resources
    /\ "r1" \in resStore
    /\ resDeletes["r1"] = 0

\* C18: every statement that changes the volunteers table ran in an
\* authenticated session; an inserted row carries the session's uid as
\* user_id, and an updated row had it before the update and has it after.
C18_OwnRowOnly ==
    [][ rlsRows' # rlsRows =>
            /\ rlsLast'.role = "authenticated"
            /\ rlsLast'.uid \in UserIds
            /\ Len(rlsRows') > Len(rlsRows) =>
                   rlsRows'[Len(rlsRows')].user_id = rlsLast'.uid
            /\ \A i \in 1..Len(rlsRows) :
                   rlsRows'[i] # rlsRows[i] =>
                       /\ rlsRows[i].user_id = rlsLast'.uid
                       /\ rlsRows'[i].user_id = rlsLast'.uid ]_vars

C18_Witness ==
    /\ rlsLast = [op |-> "update", role |-> "authenticated", uid |-> "u2",
                  ok |-> TRUE]
    /\ Len(rlsRows) = 2
    /\ rlsRows[1] = [user_id |-> "u1", name |-> "n1"]
    /\ rlsRows[2] = [user_id |-> "u2", name |-> "n2"]

\* C19: whenever a catalog skill is ticked as required and a selected
\* volunteer was registered as holding the skill of that catalog row, the
\* rendered coverage lists the skill as covered.
C19_SameSkillCovered ==
    skillCoverage.rendered =>
        \A k \in 1..Len(SkillRows) :
            ( /\ Includes(requiredSkills, SkillRows[k].id)
              /\ \E i \in 1..Len(selectedVolunteers) :
                     /\ selectedVolunteers[i].hasSkills
                     /\ Includes(selectedVolunteers[i].skills,
                                 SkillRows[k].name) )
            => Includes(skillCoverage.covered, SkillRows[k].id)

\* C20: every insert handleSaveShift sends is for a date and slot that
\* isSlotAvailable reports available for the shifts loaded at the click, and
\* no loaded shift is on that date in that slot.
C20_SavedSlotAvailable ==
    [][ ssSent' # ssSent =>
            /\ isSlotAvailable(selectedDate, selectedTimeSlot)
            /\ \A i \in 1..Len(shifts) :
                   SubSeq(shifts[i].start_time, 1, 19)
                       # SubSeq(ssRequest'.start_time, 1, 19) ]_vars

\* The number a decimal digit character stands for.
DigitValue(c) == CHOOSE d \in 0..9 : CharOrder[d + 3] = c

TwoDigits(text, i) == 10 * DigitValue(text[i]) + DigitValue(text[i + 1])

\* The minute of the year a timestamp text YYYY-MM-DDTHH:MM:SS<offset>
\* denotes (every offset written in the model is UTC).
Minute(ts) ==
    ((TwoDigits(ts, 6) * 31 + TwoDigits(ts, 9)) * 24 + TwoDigits(ts, 12)) * 60
        + TwoDigits(ts, 15)

\* Two intervals overlap when they share more than an end point.
Overlap(start1, end1, start2, end2) == start1 < end2 /\ start2 < end1

\* C21: isSlotAvailable(date, slot) is false exactly when the slot id is
\* unknown or a loaded shift overlaps the slot's interval on that date,
\* intervals that only share an end point not overlapping.
C21_AvailableIffNoOverlap ==
    \A d \in 1..Len(availableDates) :
        \A slotId \in {"morning", "afternoon", "evening", "night"} :
            LET k == FindSlot(slotId)
            IN isSlotAvailable(availableDates[d], slotId) =
                   ( /\ k # 0
                     /\ ~ \E i \in 1..Len(shifts) :
                            Overlap(Minute(shifts[i].start_time),
                                    Minute(shifts[i].end_time),
                                    Minute(DateTime(availableDates[d],
                                                    timeSlots[k].startTime)),
                                    Minute(DateTime(availableDates[d],
                                                    timeSlots[k].endTime))) )

\* C22: unreadCount is the number of notifications whose read flag is
\* false, and is never negative.
C22_UnreadCountExact ==
    /\ unreadCount = UnreadOf(notifications)
    /\ unreadCount >= 0

\* C23: while the Incidents page shows no form, no incident is selected;
\* a form opened by Report Incident has no incident to edit.
C23_ClosedFormSelectsNothing ==
    /\ ~showForm => selectedIncident = NULL
    /\ incLast = "report" => showForm /\ selectedIncident = NULL

C23_Witness ==
    /\ incLast = "report"
    /\ incSent = 1
    /\ incChanges > 0

\* C24: when no fetch, reply, realtime event or form request is
\* outstanding (and no fetch was answered with an error), the incidents
\* list shown is the content of the table.
C24_ListIsStore ==
    ( /\ incFetches = 0
      /\ incReplies = <<>>
      /\ incEvents = 0
      /\ incSaves = <<>>
      /\ ~incFetchFailed )
    => incidents = incStore

\* C25: once checkUser has completed (getUser did not fail) and every auth
\* event has been delivered, user is the user of the current session and
\* loading is false.
C25_UserIsSession ==
    (appCheck = "done" /\ appCheckReply.ok /\ appEvents = <<>>)
    => (appUser = appSession /\ ~appLoading)

\* C26: a delete request for a resource is sent only while deleteConfirm
\* is that resource; Cancel sends nothing and clears deleteConfirm; a
\* successful delete clears deleteConfirm and starts a refetch; a failed
\* delete leaves deleteConfirm and the resources list as they were.
C26_DeleteNeedsConfirm ==
    [][ /\ \A id \in ResourceIds :
               resDeletes'[id] > resDeletes[id] =>
                   deleteConfirm = id /\ deleteConfirm' = id
        /\ (deleteConfirm # NULL /\ deleteConfirm' = NULL /\ resToast' = "none")
               => UNCHANGED <<resDeletes, resDeletesSent, resStore>>
        /\ resToast' = "Resource deleted successfully" =>
               deleteConfirm' = NULL /\ resFetches' = resFetches + 1
        /\ resToast' = "Failed to delete resource" =>
               UNCHANGED <<deleteConfirm, resources>> ]_vars

C26_Witness ==
    /\ resToast = "Resource deleted successfully"
    /\ deleteConfirm = NULL
    /\ "r1" \notin resStore
    /\ "r1" \in resources
    /\ resFetches > 0
    /\ resDeletesSent = 1

NoDuplicates(list) ==
    \A i, j \in 1..Len(list) : list[i] = list[j] => i = j

\* C27: from a selectedSkills list without duplicates and with at most
\* maxSkills entries, every list toggleSkill or removeSkill hands to
\* onChange has no duplicates and at most maxSkills entries; toggling an
\* unselected skill of a full list calls onChange not at all; toggling a
\* selected skill removes it.
C27_WithinMaxNoDuplicates ==
    [][ (NoDuplicates(skSelected) /\ Len(skSelected) <= skMax) =>
            /\ (skLast'.handler # "none" /\ skLast'.called) =>
                   /\ NoDuplicates(skLast'.list)
                   /\ Len(skLast'.list) <= skMax
            /\ ( /\ skLast'.handler = "toggleSkill"
                 /\ ~Includes(skSelected, skLast'.skill)
                 /\ Len(skSelected) >= skMax )
                   => (~skLast'.called /\ skSelected' = skSelected)
            /\ ( /\ skLast'.handler = "toggleSkill"
                 /\ Includes(skSelected, skLast'.skill) )
                   => /\ skLast'.called
                      /\ ~Includes(skLast'.list, skLast'.skill)
                      /\ Len(skLast'.list) = Len(skSelected) - 1 ]_vars

C27_Witness ==
    /\ skLast = [handler |-> "toggleSkill", skill |-> "First Aid",
                 called |-> FALSE, list |-> <<>>]
    /\ skMax = 2
    /\ skSelected = <<"CPR", "Driving">>

\* C28: requiredSkills never holds an id twice; a step that changes it
\* without being the form's reset is a toggle of one catalog skill, which
\* adds the skill when it was absent and removes it when it was present,
\* and leaves selectedVolunteers and leaderId alone; toggling any skill
\* twice gives back the membership there was.
C28_ToggleIsSetToggle ==
    /\ [](/\ NoDuplicates(requiredSkills)
          /\ \A k \in 1..Len(SkillCatalog) :
                 Range(RequiredAfterToggle(
                           RequiredAfterToggle(requiredSkills, SkillCatalog[k]),
                           SkillCatalog[k])) = Range(requiredSkills))
    /\ [][ (requiredSkills' # requiredSkills /\ toast' = "none") =>
               /\ \E k \in 1..Len(SkillCatalog) :
                      LET id == SkillCatalog[k]
                      IN IF Includes(requiredSkills, id)
                         THEN Range(requiredSkills')
                                  = Range(requiredSkills) \ {id}
                         ELSE requiredSkills' = Append(requiredSkills, id)
               /\ UNCHANGED <<selectedVolunteers, leaderId>> ]_vars

C28_Witness ==
    /\ requiredSkills = <<"Driving", "FirstAid">>
    /\ leaderId = "v1"
    /\ Len(selectedVolunteers) = 2
    /\ toast = "none"

====
